---- MODULE Spec2Model ----
(***************************************************************************)
(* Task manager backend (Express + SQLite): the authentication routes,     *)
(* the bearer-token middleware and the owner-scoped task routes.           *)
(*                                                                         *)
(* JavaScript strings are sequences of one-character strings, so that      *)
(* trim, toLowerCase and the sanitizer's replacements are computed as the  *)
(* code computes them.  undefined and null are the one-element sequences   *)
(* Undefined and Null, whose element is not a character.                   *)
(*                                                                         *)
(* The data layer is the SQLite one (database.js lines 1-204): the routes  *)
(* use its '?' placeholders and index.js closes its `db` handle.  Time is  *)
(* counted in days.  The rate limiters and the other framework middleware  *)
(* are outside the model.                                                  *)
(***************************************************************************)
EXTENDS Integers, Sequences, FiniteSets, TLC

VARIABLES users, tasks, taskSeq, clock, pending, resp, server, loadingStates, calls

vars == <<users, tasks, taskSeq, clock, pending, resp, server, loadingStates, calls>>

(***************************************************************************)
(* Bounds of the model.                                                    *)
(***************************************************************************)
MaxClock == 1
MaxTasks == 2

(***************************************************************************)
(* Program constants.                                                      *)
(***************************************************************************)
AccessTokenDays == 1
NameMinLen == 2
NameMaxLen == 100
EmailMaxLen == 255
PasswordMinLen == 6
PasswordMaxLen == 128
SaltRounds == 12

(***************************************************************************)
(* JavaScript values and string primitives.                                *)
(***************************************************************************)
Undefined == <<"undefined">>
Null == <<"null">>

IsString(v) == v \notin {Undefined, Null}

\* JavaScript truthiness of a value that is undefined, null or a string.
Truthy(v) == IsString(v) /\ v # <<>>

WhiteSpace == {" ", "\t", "\n"}

Uppers == <<"A", "B", "C", "D", "E", "F", "G", "H", "I", "J", "K", "L", "M",
            "N", "O", "P", "Q", "R", "S", "T", "U", "V", "W", "X", "Y", "Z">>
Lowers == <<"a", "b", "c", "d", "e", "f", "g", "h", "i", "j", "k", "l", "m",
            "n", "o", "p", "q", "r", "s", "t", "u", "v", "w", "x", "y", "z">>
Digits == {"0", "1", "2", "3", "4", "5", "6", "7", "8", "9"}

IsUpper(c) == \E i \in 1..Len(Uppers) : Uppers[i] = c
IsLower(c) == \E i \in 1..Len(Lowers) : Lowers[i] = c

LowerChar(c) ==
    IF IsUpper(c) THEN Lowers[CHOOSE i \in 1..Len(Uppers) : Uppers[i] = c] ELSE c

\* String.prototype.toLowerCase
ToLowerCase(s) == [i \in 1..Len(s) |-> LowerChar(s[i])]

\* \w of a regular expression
IsWordChar(c) == IsUpper(c) \/ IsLower(c) \/ c \in Digits \/ c = "_"

RECURSIVE TrimStart(_)
TrimStart(s) ==
    IF s # <<>> /\ Head(s) \in WhiteSpace THEN TrimStart(Tail(s)) ELSE s

RECURSIVE TrimEnd(_)
TrimEnd(s) ==
    IF s # <<>> /\ s[Len(s)] \in WhiteSpace
    THEN TrimEnd(SubSeq(s, 1, Len(s) - 1))
    ELSE s

\* String.prototype.trim
Trim(s) == TrimEnd(TrimStart(s))

\* s.trim() on a value the code has not checked to be a string throws on
\* undefined and null; OptTrim is description?.trim() || ''.
OptTrim(v) == IF IsString(v) THEN Trim(v) ELSE <<>>

Includes(s, c) == \E i \in 1..Len(s) : s[i] = c

(***************************************************************************)
(* sanitizeInput and the e-mail pattern.                                   *)
(***************************************************************************)
StartsWithCI(s, w) ==
    Len(s) >= Len(w) /\ ToLowerCase(SubSeq(s, 1, Len(w))) = w

\* .replace(/[<>]/g, '')
RemoveAngles(s) == SelectSeq(s, LAMBDA c : c \notin {"<", ">"})

JsScheme == <<"j", "a", "v", "a", "s", "c", "r", "i", "p", "t", ":">>

\* .replace(/javascript:/gi, ''): one left-to-right pass, the result is not
\* scanned again.
RECURSIVE RemoveJsScheme(_)
RemoveJsScheme(s) ==
    IF s = <<>> THEN <<>>
    ELSE IF StartsWithCI(s, JsScheme)
         THEN RemoveJsScheme(SubSeq(s, Len(JsScheme) + 1, Len(s)))
         ELSE <<Head(s)>> \o RemoveJsScheme(Tail(s))

\* The length of the longest run of \w characters of s that starts at i.
RECURSIVE WordRun(_, _)
WordRun(s, i) ==
    IF i <= Len(s) /\ IsWordChar(s[i]) THEN 1 + WordRun(s, i + 1) ELSE 0

\* The length of the match of /on\w+=/i at the head of s, 0 when none: '=' is
\* no \w character, so \w+ can only be the whole run.
OnHandlerMatch(s) ==
    IF StartsWithCI(s, <<"o", "n">>)
       /\ WordRun(s, 3) >= 1
       /\ Len(s) >= 3 + WordRun(s, 3)
       /\ s[3 + WordRun(s, 3)] = "="
    THEN 3 + WordRun(s, 3)
    ELSE 0

\* .replace(/on\w+=/gi, '')
RECURSIVE RemoveOnHandlers(_)
RemoveOnHandlers(s) ==
    IF s = <<>> THEN <<>>
    ELSE IF OnHandlerMatch(s) > 0
         THEN RemoveOnHandlers(SubSeq(s, OnHandlerMatch(s) + 1, Len(s)))
         ELSE <<Head(s)>> \o RemoveOnHandlers(Tail(s))

sanitizeInput(input) ==
    IF ~IsString(input) THEN input
    ELSE Trim(RemoveOnHandlers(RemoveJsScheme(RemoveAngles(input))))

\* /^[^\s@]+@[^\s@]+\.[^\s@]+$/.test(s)
EmailRegexTest(s) ==
    /\ \A i \in 1..Len(s) : s[i] \notin WhiteSpace
    /\ Cardinality({i \in 1..Len(s) : s[i] = "@"}) = 1
    /\ LET at == CHOOSE i \in 1..Len(s) : s[i] = "@"
       IN  /\ at > 1
           /\ \E d \in (at + 2)..(Len(s) - 1) : s[d] = "."

(***************************************************************************)
(* Password hashing (bcryptjs) and tokens (jsonwebtoken), by the contract  *)
(* of the libraries: compare accepts exactly the hashed password; verify   *)
(* checks structure, then the signature, then the expiry.                  *)
(***************************************************************************)
BcryptHash(password, rounds) == [alg |-> "bcrypt", rounds |-> rounds, of |-> password]

BcryptCompare(password, hash) == hash.of = password

NoPayload == [userId |-> 0, iat |-> 0, exp |-> 0, type |-> "none"]

JwtSign(payload, lifetime) ==
    [raw |-> "jwt", sig |-> "server",
     payload |-> [userId |-> payload.userId, iat |-> payload.iat,
                  exp |-> payload.iat + lifetime, type |-> payload.type]]

JwtVerify(token, now) ==
    IF token.raw # "jwt" \/ token.sig # "server"
    THEN [err |-> "JsonWebTokenError", decoded |-> NoPayload]
    ELSE IF now >= token.payload.exp
         THEN [err |-> "TokenExpiredError", decoded |-> NoPayload]
         ELSE [err |-> "none", decoded |-> token.payload]

generateTokenWrongId(userId, now) ==
    JwtSign([userId |-> userId + 1, iat |-> now, type |-> "access"], AccessTokenDays)

generateToken(userId, now) ==
    JwtSign([userId |-> userId, iat |-> now, type |-> "access"], AccessTokenDays)

(***************************************************************************)
(* Responses.  A body is {success, message, code, data, errors}; a key the *)
(* code does not send is NoCode, NoData or the empty list.                 *)
(***************************************************************************)
NoCode == "(no code)"
NoData == <<>>
NoUser == [userId |-> 0, tokenIssuedAt |-> 0, tokenExpiresAt |-> 0]

Json(success, message, code, data, errors) ==
    [success |-> success, message |-> message, code |-> code,
     data |-> data, errors |-> errors]

Fail(status, message, code) ==
    [status |-> status, body |-> Json(FALSE, message, code, NoData, <<>>)]

(***************************************************************************)
(* authenticateToken.  A header is the list authHeader.split(' '): its      *)
(* first segment `scheme` and the segments after it, each a token.  An     *)
(* absent header, and the empty string, are falsy.                         *)
(***************************************************************************)
UndefinedToken == [raw |-> "undefined", sig |-> "none", payload |-> NoPayload]
EmptyToken == [raw |-> "", sig |-> "none", payload |-> NoPayload]
GarbageToken == [raw |-> "garbage", sig |-> "none", payload |-> NoPayload]

NoHeader == [present |-> FALSE, scheme |-> "", segs |-> <<>>]
Header(scheme, segs) == [present |-> TRUE, scheme |-> scheme, segs |-> segs]
Bearer(token) == Header("Bearer", <<token>>)

HeaderFalsy(h) == ~h.present \/ (h.scheme = "" /\ h.segs = <<>>)

\* authHeader.split(' ')[1]
SplitSecond(h) == IF Len(h.segs) >= 1 THEN h.segs[1] ELSE UndefinedToken

Rejected(status, message, code) ==
    [next |-> FALSE, user |-> NoUser, res |-> Fail(status, message, code)]

authenticateTokenNoExpiry(h, now) ==
    IF HeaderFalsy(h)
    THEN Rejected(401, "Access token required", "MISSING_TOKEN")
    ELSE IF SplitSecond(h).raw \in {"undefined", ""}
    THEN Rejected(401, "Invalid token format", "INVALID_TOKEN_FORMAT")
    ELSE LET v == JwtVerify(SplitSecond(h), 0)
         IN  IF v.err = "JsonWebTokenError"
             THEN Rejected(401, "Invalid token", "INVALID_TOKEN")
             ELSE [next |-> TRUE,
                   user |-> [userId |-> v.decoded.userId,
                             tokenIssuedAt |-> v.decoded.iat,
                             tokenExpiresAt |-> v.decoded.exp],
                   res |-> Fail(0, "", NoCode)]

authenticateToken(h, now) ==
    IF HeaderFalsy(h)
    THEN Rejected(401, "Access token required", "MISSING_TOKEN")
    ELSE IF SplitSecond(h).raw \in {"undefined", ""}
    THEN Rejected(401, "Invalid token format", "INVALID_TOKEN_FORMAT")
    ELSE LET v == JwtVerify(SplitSecond(h), now)
         IN  IF v.err = "TokenExpiredError"
             THEN Rejected(401, "Token has expired", "TOKEN_EXPIRED")
             ELSE IF v.err = "JsonWebTokenError"
             THEN Rejected(401, "Invalid token", "INVALID_TOKEN")
             ELSE IF v.err # "none"
             THEN Rejected(401, "Token verification failed", "TOKEN_VERIFICATION_FAILED")
             ELSE [next |-> TRUE,
                   user |-> [userId |-> v.decoded.userId,
                             tokenIssuedAt |-> v.decoded.iat,
                             tokenExpiresAt |-> v.decoded.exp],
                   res |-> Fail(0, "", NoCode)]

(***************************************************************************)
(* The users table: id INTEGER PRIMARY KEY AUTOINCREMENT, email UNIQUE.    *)
(* No statement deletes a user, so the next id is one more than the        *)
(* largest stored one.  updated_at of a user is never read and is left out.*)
(***************************************************************************)
MaxId(rows) == IF rows = {} THEN 0 ELSE CHOOSE m \in {r.id : r \in rows} : \A r \in rows : r.id <= m

UserRow(id, name, email, password, now) ==
    [id |-> id, name |-> name, email |-> email, password |-> password, created_at |-> now]

\* getRow('SELECT ... FROM users WHERE email = ?'): the set of matching rows,
\* empty when getRow resolves to undefined.
UsersByEmail(us, email) == {u \in us : u.email = email}
UsersById(us, id) == {u \in us : u.id = id}

InsertUserNoUnique(us, name, email, password, now) ==
    [ok |-> TRUE, code |-> "",
     id |-> MaxId(us) + 1,
     users |-> us \cup {UserRow(MaxId(us) + 1, name, email, password, now)}]

\* runQuery('INSERT INTO users (name, email, password) VALUES (?, ?, ?)'):
\* the UNIQUE constraint on email refuses a second row with the same email.
InsertUser(us, name, email, password, now) ==
    IF UsersByEmail(us, email) # {}
    THEN [ok |-> FALSE, code |-> "SQLITE_CONSTRAINT", id |-> 0, users |-> us]
    ELSE [ok |-> TRUE, code |-> "",
          id |-> MaxId(us) + 1,
          users |-> us \cup {UserRow(MaxId(us) + 1, name, email, password, now)}]

(***************************************************************************)
(* POST /api/auth/register                                                 *)
(***************************************************************************)
ValidateRegistrationFirstError(b) ==
    IF ~Truthy(b.name) THEN <<"Name is required and must be a string">>
    ELSE IF Len(Trim(b.name)) < NameMinLen THEN <<"Name must be at least 2 characters long">>
    ELSE IF Len(Trim(b.name)) > NameMaxLen THEN <<"Name cannot exceed 100 characters">>
    ELSE IF ~Truthy(b.email) THEN <<"Email is required and must be a string">>
    ELSE IF ~EmailRegexTest(Trim(b.email)) THEN <<"Please provide a valid email address">>
    ELSE IF Len(Trim(b.email)) > EmailMaxLen THEN <<"Email cannot exceed 255 characters">>
    ELSE IF ~Truthy(b.password) THEN <<"Password is required and must be a string">>
    ELSE IF Len(b.password) < PasswordMinLen THEN <<"Password must be at least 6 characters long">>
    ELSE IF Len(b.password) > PasswordMaxLen THEN <<"Password cannot exceed 128 characters">>
    ELSE IF ~Truthy(b.confirmPassword) THEN <<"Password confirmation is required">>
    ELSE IF b.password # b.confirmPassword THEN <<"Passwords do not match">>
    ELSE <<>>

ValidateRegistrationErrors(b) ==
    (IF ~Truthy(b.name) THEN <<"Name is required and must be a string">>
     ELSE IF Len(Trim(b.name)) < NameMinLen THEN <<"Name must be at least 2 characters long">>
     ELSE IF Len(Trim(b.name)) > NameMaxLen THEN <<"Name cannot exceed 100 characters">>
     ELSE <<>>)
    \o
    (IF ~Truthy(b.email) THEN <<"Email is required and must be a string">>
     ELSE (IF ~EmailRegexTest(Trim(b.email))
           THEN <<"Please provide a valid email address">> ELSE <<>>)
          \o
          (IF Len(Trim(b.email)) > EmailMaxLen
           THEN <<"Email cannot exceed 255 characters">> ELSE <<>>))
    \o
    (IF ~Truthy(b.password) THEN <<"Password is required and must be a string">>
     ELSE IF Len(b.password) < PasswordMinLen THEN <<"Password must be at least 6 characters long">>
     ELSE IF Len(b.password) > PasswordMaxLen THEN <<"Password cannot exceed 128 characters">>
     ELSE <<>>)
    \o
    (IF ~Truthy(b.confirmPassword) THEN <<"Password confirmation is required">>
     ELSE IF b.password # b.confirmPassword THEN <<"Passwords do not match">>
     ELSE <<>>)

SanitizedEmailKeepCase(email) == sanitizeInput(email)

\* sanitizeInput(email).toLowerCase()
SanitizedEmail(email) == ToLowerCase(sanitizeInput(email))

\* The handler up to and including its existence check: the response it
\* sends there, or status 0 when it goes on to insert.
RegisterCheck(us, b) ==
    IF ValidateRegistrationErrors(b) # <<>>
    THEN [status |-> 400,
          body |-> Json(FALSE, "Validation failed", "VALIDATION_ERROR", NoData,
                        ValidateRegistrationErrors(b))]
    ELSE IF Len(sanitizeInput(b.name)) < NameMinLen
    THEN Fail(400, "Name must be at least 2 characters long", "INVALID_NAME")
    ELSE IF Len(SanitizedEmail(b.email)) = 0 \/ ~Includes(SanitizedEmail(b.email), "@")
    THEN Fail(400, "Please provide a valid email address", "INVALID_EMAIL")
    ELSE IF Len(b.password) < PasswordMinLen
    THEN Fail(400, "Password must be at least 6 characters long", "INVALID_PASSWORD")
    ELSE IF b.password # b.confirmPassword
    THEN Fail(400, "Passwords do not match", "PASSWORD_MISMATCH")
    ELSE IF UsersByEmail(us, SanitizedEmail(b.email)) # {}
    THEN Fail(409, "User with this email already exists", "USER_EXISTS")
    ELSE Fail(0, "", NoCode)

\* The catch block of the register handler.
RegisterCatch(code) ==
    IF code = "23505"
    THEN Fail(409, "User with this email already exists", "USER_EXISTS")
    ELSE Fail(500, "Internal server error during registration", "REGISTRATION_ERROR")

AuthData(user, token) ==
    [userId |-> user.id, name |-> user.name, email |-> user.email,
     token |-> token, createdAt |-> user.created_at]

(***************************************************************************)
(* POST /api/auth/login                                                    *)
(***************************************************************************)
ValidateLoginErrors(b) ==
    (IF ~Truthy(b.email) THEN <<"Email is required and must be a string">>
     ELSE IF Len(Trim(b.email)) = 0 THEN <<"Email cannot be empty">>
     ELSE <<>>)
    \o
    (IF ~Truthy(b.password) THEN <<"Password is required and must be a string">>
     ELSE IF Len(Trim(b.password)) = 0 THEN <<"Password cannot be empty">>
     ELSE <<>>)

LoginHandlerTellsUnknown(us, b, now) ==
    IF ValidateLoginErrors(b) # <<>>
    THEN [status |-> 400,
          body |-> Json(FALSE, "Validation failed", "VALIDATION_ERROR", NoData,
                        ValidateLoginErrors(b))]
    ELSE LET found == UsersByEmail(us, SanitizedEmail(b.email))
         IN  IF found = {}
             THEN Fail(404, "User not found", "USER_NOT_FOUND")
             ELSE LET user == CHOOSE u \in found : TRUE
                  IN  IF ~BcryptCompare(b.password, user.password)
                      THEN Fail(401, "Invalid email or password", "INVALID_CREDENTIALS")
                      ELSE [status |-> 200,
                            body |-> Json(TRUE, "Login successful", NoCode,
                                          AuthData(user, generateToken(user.id, now)), <<>>)]

LoginHandlerRawEmail(us, b, now) ==
    IF ValidateLoginErrors(b) # <<>>
    THEN [status |-> 400,
          body |-> Json(FALSE, "Validation failed", "VALIDATION_ERROR", NoData,
                        ValidateLoginErrors(b))]
    ELSE LET found == UsersByEmail(us, b.email)
         IN  IF found = {}
             THEN Fail(401, "Invalid email or password", "INVALID_CREDENTIALS")
             ELSE LET user == CHOOSE u \in found : TRUE
                  IN  IF ~BcryptCompare(b.password, user.password)
                      THEN Fail(401, "Invalid email or password", "INVALID_CREDENTIALS")
                      ELSE [status |-> 200,
                            body |-> Json(TRUE, "Login successful", NoCode,
                                          AuthData(user, generateToken(user.id, now)), <<>>)]

LoginHandler(us, b, now) ==
    IF ValidateLoginErrors(b) # <<>>
    THEN [status |-> 400,
          body |-> Json(FALSE, "Validation failed", "VALIDATION_ERROR", NoData,
                        ValidateLoginErrors(b))]
    ELSE LET found == UsersByEmail(us, SanitizedEmail(b.email))
         IN  IF found = {}
             THEN Fail(401, "Invalid email or password", "INVALID_CREDENTIALS")
             ELSE LET user == CHOOSE u \in found : TRUE
                  IN  IF ~BcryptCompare(b.password, user.password)
                      THEN Fail(401, "Invalid email or password", "INVALID_CREDENTIALS")
                      ELSE [status |-> 200,
                            body |-> Json(TRUE, "Login successful", NoCode,
                                          AuthData(user, generateToken(user.id, now)), <<>>)]

(***************************************************************************)
(* The tasks table: id INTEGER PRIMARY KEY AUTOINCREMENT (an id is never   *)
(* used again: taskSeq is the largest id handed out), no CHECK on status.  *)
(* A status, a deadline and a reminder time are one-element sequences (or  *)
(* '' , null).                                                             *)
(***************************************************************************)
ToDo == <<"To Do">>
InProgress == <<"In Progress">>
Done == <<"Done">>
Statuses == {ToDo, InProgress, Done}

TaskRow(id, title, description, status, deadline, reminder, userId, created, updated) ==
    [id |-> id, title |-> title, description |-> description, status |-> status,
     deadline |-> deadline, reminder_time |-> reminder, user_id |-> userId,
     created_at |-> created, updated_at |-> updated]

\* x || null
OrNull(v) == IF Truthy(v) THEN v ELSE Null

\* 'SELECT ... FROM tasks WHERE id = $1'
TasksById(ts, id) == {t \in ts : t.id = id}

OwnedTaskAnyUser(ts, id, userId) == TasksById(ts, id)

\* 'SELECT ... FROM tasks WHERE id = $1 AND user_id = $2'
OwnedTask(ts, id, userId) == {t \in ts : t.id = id /\ t.user_id = userId}

NotFound == [status |-> 404,
             body |-> Json(FALSE, "Task not found", NoCode, NoData, <<>>)]

InternalError == [status |-> 500,
                  body |-> Json(FALSE, "Internal server error", NoCode, NoData, <<>>)]

InvalidStatus ==
    [status |-> 400,
     body |-> Json(FALSE, "Invalid status. Must be one of: To Do, In Progress, Done",
                   NoCode, NoData, <<>>)]

(***************************************************************************)
(* GET /api/tasks                                                          *)
(***************************************************************************)
SelectTasksAllUsers(ts, userId, status) ==
    IF Truthy(status) /\ status \in Statuses
    THEN {t \in ts : t.status = status}
    ELSE ts

\* The rows of the list query, before ORDER BY.
SelectTasks(ts, userId, status) ==
    IF Truthy(status) /\ status \in Statuses
    THEN {t \in ts : t.user_id = userId /\ t.status = status}
    ELSE {t \in ts : t.user_id = userId}

\* ORDER BY created_at DESC: every order of the rows that is descending in
\* created_at; rows with the same created_at come in either order.
RECURSIVE OrderByCreatedDesc(_)
OrderByCreatedDesc(rows) ==
    IF rows = {} THEN {<<>>}
    ELSE UNION {{<<r>> \o q : q \in OrderByCreatedDesc(rows \ {r})} :
                r \in {x \in rows : \A y \in rows : x.created_at >= y.created_at}}

\* The responses GET /api/tasks can send.
ListTasksHandler(ts, userId, status) ==
    {[status |-> 200, body |-> Json(TRUE, "", NoCode, rows, <<>>)] :
        rows \in OrderByCreatedDesc(SelectTasks(ts, userId, status))}

(***************************************************************************)
(* GET /api/tasks/:id                                                      *)
(***************************************************************************)
GetTaskHandlerForbidden(ts, userId, id) ==
    IF TasksById(ts, id) = {}
    THEN NotFound
    ELSE IF OwnedTask(ts, id, userId) = {}
    THEN [status |-> 403,
          body |-> Json(FALSE, "Access denied", NoCode, NoData, <<>>)]
    ELSE [status |-> 200,
          body |-> Json(TRUE, "", NoCode,
                        <<CHOOSE t \in OwnedTask(ts, id, userId) : TRUE>>, <<>>)]

GetTaskHandler(ts, userId, id) ==
    IF OwnedTask(ts, id, userId) = {}
    THEN NotFound
    ELSE [status |-> 200,
          body |-> Json(TRUE, "", NoCode,
                        <<CHOOSE t \in OwnedTask(ts, id, userId) : TRUE>>, <<>>)]

(***************************************************************************)
(* POST /api/tasks                                                         *)
(***************************************************************************)
\* const { status = 'To Do' } = req.body: the default replaces undefined only.
StatusOrDefault(b) == IF b.status = Undefined THEN ToDo ELSE b.status

\* What runQuery resolves to for an INSERT: this.lastID, this.changes and an
\* empty rows list; the inserted row is not part of it.
RunResult(id, changes) == [id |-> id, changes |-> changes, rows |-> <<>>]

\* A table without AUTOINCREMENT: the next id is one more than the largest
\* stored one, so the id of a deleted last row is handed out again.
CreateTaskHandlerReusesIds(ts, seq, userId, b, now) ==
    IF ~Truthy(b.title) \/ Len(Trim(b.title)) = 0
    THEN [res |-> [status |-> 400,
                   body |-> Json(FALSE, "Task title is required", NoCode, NoData, <<>>)],
          tasks |-> ts, seq |-> seq]
    ELSE IF Truthy(StatusOrDefault(b)) /\ StatusOrDefault(b) \notin Statuses
    THEN [res |-> InvalidStatus, tasks |-> ts, seq |-> seq]
    ELSE [res |-> [status |-> 201,
                   body |-> Json(TRUE, "Task created successfully", NoCode,
                                 <<RunResult(MaxId(ts) + 1, 1)>>, <<>>)],
          tasks |-> ts \cup {TaskRow(MaxId(ts) + 1, Trim(b.title), OptTrim(b.description),
                                     StatusOrDefault(b), OrNull(b.deadline),
                                     OrNull(b.reminder_time), userId, now, now)},
          seq |-> seq + 1]

CreateTaskHandlerDropsDeadline(ts, seq, userId, b, now) ==
    IF ~Truthy(b.title) \/ Len(Trim(b.title)) = 0
    THEN [res |-> [status |-> 400,
                   body |-> Json(FALSE, "Task title is required", NoCode, NoData, <<>>)],
          tasks |-> ts, seq |-> seq]
    ELSE IF Truthy(StatusOrDefault(b)) /\ StatusOrDefault(b) \notin Statuses
    THEN [res |-> InvalidStatus, tasks |-> ts, seq |-> seq]
    ELSE [res |-> [status |-> 201,
                   body |-> Json(TRUE, "Task created successfully", NoCode,
                                 <<RunResult(seq + 1, 1)>>, <<>>)],
          tasks |-> ts \cup {TaskRow(seq + 1, Trim(b.title), OptTrim(b.description),
                                     StatusOrDefault(b), Null,
                                     OrNull(b.reminder_time), userId, now, now)},
          seq |-> seq + 1]

\* [res, tasks, seq]: the response and the table after the request.
CreateTaskHandler(ts, seq, userId, b, now) ==
    IF ~Truthy(b.title) \/ Len(Trim(b.title)) = 0
    THEN [res |-> [status |-> 400,
                   body |-> Json(FALSE, "Task title is required", NoCode, NoData, <<>>)],
          tasks |-> ts, seq |-> seq]
    ELSE IF Truthy(StatusOrDefault(b)) /\ StatusOrDefault(b) \notin Statuses
    THEN [res |-> InvalidStatus, tasks |-> ts, seq |-> seq]
    ELSE [res |-> [status |-> 201,
                   body |-> Json(TRUE, "Task created successfully", NoCode,
                                 <<RunResult(seq + 1, 1)>>, <<>>)],
          tasks |-> ts \cup {TaskRow(seq + 1, Trim(b.title), OptTrim(b.description),
                                     StatusOrDefault(b), OrNull(b.deadline),
                                     OrNull(b.reminder_time), userId, now, now)},
          seq |-> seq + 1]

(***************************************************************************)
(* PUT /api/tasks/:id                                                      *)
(***************************************************************************)
UpdateValidateAllowsEmpty(b) ==
    IF b.title = Null
    THEN InternalError
    ELSE IF b.title # Undefined /\ Len(Trim(b.title)) = 0
    THEN [status |-> 400,
          body |-> Json(FALSE, "Task title cannot be empty", NoCode, NoData, <<>>)]
    ELSE IF Truthy(b.status) /\ b.status \notin Statuses
    THEN InvalidStatus
    ELSE Fail(0, "", NoCode)

\* The checks between the ownership check and the UPDATE: the response sent
\* there, or status 0.  title.trim() throws on null, which the catch block
\* answers with 500.
UpdateValidate(b) ==
    IF b.title = Null
    THEN InternalError
    ELSE IF b.title # Undefined /\ Len(Trim(b.title)) = 0
    THEN [status |-> 400,
          body |-> Json(FALSE, "Task title cannot be empty", NoCode, NoData, <<>>)]
    ELSE IF Truthy(b.status) /\ b.status \notin Statuses
    THEN InvalidStatus
    ELSE IF /\ b.title = Undefined /\ b.description = Undefined
            /\ b.status = Undefined /\ b.deadline = Undefined
            /\ b.reminder_time = Undefined
    THEN [status |-> 400,
          body |-> Json(FALSE, "No fields to update", NoCode, NoData, <<>>)]
    ELSE Fail(0, "", NoCode)

UpdatedRowClearsAbsent(t, b, now) ==
    [t EXCEPT !.title = IF b.title # Undefined THEN Trim(b.title) ELSE @,
              !.description = IF b.description # Undefined THEN OptTrim(b.description) ELSE <<>>,
              !.status = IF b.status # Undefined THEN b.status ELSE @,
              !.deadline = IF b.deadline # Undefined THEN b.deadline ELSE Null,
              !.reminder_time = IF b.reminder_time # Undefined THEN b.reminder_time ELSE Null,
              !.updated_at = now]

UpdatedRow(t, b, now) ==
    [t EXCEPT !.title = IF b.title # Undefined THEN Trim(b.title) ELSE @,
              !.description = IF b.description # Undefined THEN OptTrim(b.description) ELSE @,
              !.status = IF b.status # Undefined THEN b.status ELSE @,
              !.deadline = IF b.deadline # Undefined THEN b.deadline ELSE @,
              !.reminder_time = IF b.reminder_time # Undefined THEN b.reminder_time ELSE @,
              !.updated_at = now]

\* An upsert: a row that is gone is written again.
UpdateStatementUpserts(ts, userId, id, b, now) ==
    IF \E t \in ts : t.id = id /\ t.user_id = userId
    THEN {IF t.id = id /\ t.user_id = userId THEN UpdatedRow(t, b, now) ELSE t : t \in ts}
    ELSE ts \cup {UpdatedRow(TaskRow(id, <<>>, <<>>, ToDo, Null, Null, userId, now, now), b, now)}

\* 'UPDATE tasks SET ..., updated_at = CURRENT_TIMESTAMP WHERE id = $n AND
\* user_id = $m'
UpdateStatement(ts, userId, id, b, now) ==
    {IF t.id = id /\ t.user_id = userId THEN UpdatedRow(t, b, now) ELSE t : t \in ts}

\* 'SELECT * FROM tasks WHERE id = $1' after the UPDATE, and the response;
\* JSON drops a data key that is undefined.
UpdateReload(ts, id) ==
    [status |-> 200,
     body |-> Json(TRUE, "Task updated successfully", NoCode,
                   IF TasksById(ts, id) = {} THEN NoData
                   ELSE <<CHOOSE t \in TasksById(ts, id) : TRUE>>, <<>>)]

\* The whole handler, run without another request in between.
UpdateTaskHandler(ts, userId, id, b, now) ==
    IF OwnedTask(ts, id, userId) = {}
    THEN [res |-> NotFound, tasks |-> ts]
    ELSE IF UpdateValidate(b).status # 0
    THEN [res |-> UpdateValidate(b), tasks |-> ts]
    ELSE [res |-> UpdateReload(UpdateStatement(ts, userId, id, b, now), id),
          tasks |-> UpdateStatement(ts, userId, id, b, now)]

(***************************************************************************)
(* DELETE /api/tasks/:id                                                   *)
(***************************************************************************)
\* 'DELETE FROM tasks WHERE id = $1 AND user_id = $2'
DeleteStatement(ts, userId, id) == {t \in ts : ~(t.id = id /\ t.user_id = userId)}

DeleteTaskHandler(ts, userId, id) ==
    IF OwnedTask(ts, id, userId) = {}
    THEN [res |-> NotFound, tasks |-> ts]
    ELSE [res |-> [status |-> 200,
                   body |-> Json(TRUE, "Task deleted successfully", NoCode, NoData, <<>>)],
          tasks |-> DeleteStatement(ts, userId, id)]

(***************************************************************************)
(* Requests.  The inputs are drawn from small sets of request bodies.      *)
(***************************************************************************)
Clients == {"c1", "c2"}

Idle == [pc |-> "idle"]

NoResp == [op |-> "none", status |-> 0,
           body |-> Json(FALSE, "", NoCode, NoData, <<>>), req |-> <<>>]

Respond(op, res, req) ==
    [op |-> op, status |-> res.status, body |-> res.body, req |-> req]

EmailA == <<"a", "@", "x", ".", "c">>
EmailB == <<"b", "@", "x", ".", "c">>
NameAnn == <<"A", "n", "n">>
NameBob == <<"B", "o", "b">>
PasswordA == <<"A", "b", "c", "1", "2", "3">>
PasswordB == <<"X", "y", "z", "7", "8", "9">>
WeakPassword == <<"a", "b", "c", "d", "e", "f">>

RegBody(name, email, password, confirm) ==
    [name |-> name, email |-> email, password |-> password, confirmPassword |-> confirm]

RegisterBodies ==
    { RegBody(NameAnn, EmailA, PasswordA, PasswordA),
      RegBody(NameAnn, <<" ", "A", "@", "X", ".", "c">>, PasswordA, PasswordA),
      RegBody(NameAnn, <<"<", "a", "@", "x", ".", "c", ">">>, PasswordA, PasswordA),
      RegBody(NameBob, EmailB, PasswordB, PasswordB),
      RegBody(<<"o", "n", "x", "=", "B", "o", "b">>,
              JsScheme \o <<"B", "@", "x", ".", "c">>, PasswordB, PasswordB),
      RegBody(<<"<", ">", "A">>, EmailA, PasswordA, PasswordA),
      RegBody(<<"A">>, <<"a", "x", ".", "c">>, <<"a", "b", "c">>, PasswordA),
      RegBody(NameBob, EmailB, PasswordB, Undefined),
      RegBody(NameBob, EmailB, WeakPassword, WeakPassword) }

LoginBody(email, password) == [email |-> email, password |-> password]

LoginBodies ==
    { LoginBody(EmailA, PasswordA),
      LoginBody(<<" ", "A", "@", "X", ".", "C", " ">>, PasswordA),
      LoginBody(EmailA, PasswordB),
      LoginBody(EmailB, PasswordB),
      LoginBody(<<"z", "@", "x", ".", "c">>, PasswordA),
      LoginBody(Undefined, PasswordA) }

Day1 == <<"day1">>

TaskBody(title, description, status, deadline, reminder) ==
    [title |-> title, description |-> description, status |-> status,
     deadline |-> deadline, reminder_time |-> reminder]

CreateBodies ==
    { TaskBody(<<" ", "a">>, <<"d", " ">>, Undefined, Day1, Undefined),
      TaskBody(<<" ", "a">>, <<"d", " ">>, Done, Day1, Undefined),
      TaskBody(<<" ">>, Undefined, Undefined, Undefined, Undefined),
      TaskBody(<<"a">>, Undefined, <<"Bogus">>, Undefined, Undefined),
      TaskBody(Undefined, <<"d">>, Undefined, Undefined, Undefined) }

UpdateBodies ==
    { TaskBody(Undefined, Undefined, Done, Undefined, Undefined),
      TaskBody(Undefined, Undefined, Undefined, Undefined, Undefined),
      TaskBody(<<" ">>, Undefined, Done, Undefined, Undefined),
      TaskBody(Null, Undefined, Done, Undefined, Undefined),
      TaskBody(Undefined, Undefined, <<"Bogus">>, Undefined, Undefined) }

StatusFilters == {Undefined, Done, ToDo, <<"Bogus">>}

TaskIds == 1..MaxTasks

UserIds == 1..Cardinality({EmailA, EmailB})

ForgedToken ==
    [raw |-> "jwt", sig |-> "forged",
     payload |-> [userId |-> 1, iat |-> 0, exp |-> AccessTokenDays, type |-> "access"]]

\* The tokens the server has handed out by `now`: login issues one for a
\* stored user at any time after the registration.
IssuedTokens(us, now) ==
    UNION {{generateToken(u.id, t) : t \in u.created_at..now} : u \in us}

\* The Authorization headers a request may carry.
Headers(us, now) ==
    {NoHeader, Header("", <<>>), Header("Bearer", <<>>),
     Header("Bearer", <<EmptyToken>>), Bearer(GarbageToken), Bearer(ForgedToken)}
    \cup {Bearer(t) : t \in IssuedTokens(us, now)}
    \cup {Header("Basic", <<t>>) : t \in IssuedTokens(us, now)}

\* req.user of the requests that authenticateToken lets through.
ResolvedUsers(us, now) ==
    {authenticateToken(h, now).user :
        h \in {x \in Headers(us, now) : authenticateToken(x, now).next}}

TaskReq(userId, id) == [userId |-> userId, id |-> id]

(***************************************************************************)
(* The server process.  index.js loads its modules (middleware/auth throws  *)
(* without JWT_SECRET), then startServer awaits initializeDatabase          *)
(* (testConnection with retries and doubling delay, then initDatabase) and *)
(* calls app.listen.  Requests are served only by a listening server.      *)
(***************************************************************************)
Retries == 5
InitialDelay == 1000

\* pc: where the process is; secret: JWT_SECRET is set; attempt and delay:
\* i and delay of testConnection; dbReady: initializeDatabase has resolved;
\* code: the exit code once pc is "exited".
ServerState(pc, secret, attempt, delay, dbReady, code) ==
    [pc |-> pc, secret |-> secret, attempt |-> attempt, delay |-> delay,
     dbReady |-> dbReady, code |-> code]

\* A server that found its secret and its database at the first attempt.
Started == ServerState("listening", TRUE, 0, InitialDelay, TRUE, 0)

Listening == server.pc = "listening"

(***************************************************************************)
(* The hook useLoadingStates of the frontend.  loadingStates is its state  *)
(* object, a map from action keys to booleans that starts empty; every     *)
(* setLoadingStates is given an updater, so the updates apply one after    *)
(* another.  calls are the withLoading calls: a call sets the flag of its  *)
(* action, awaits its operation and clears the flag when the operation     *)
(* has resolved or rejected.                                               *)
(***************************************************************************)
LoadingActions == {"tasks_fetch", "task_create", "task_update"}

Calls == {"k1", "k2"}

NoCall == [pc |-> "none"]

\* useLoadingStates(initialStates = {})
InitialStates == [a \in {} |-> FALSE]

\* prev => ({ ...prev, [action]: isLoading })
setLoading(prev, action, value) ==
    [a \in DOMAIN prev \cup {action} |-> IF a = action THEN value ELSE prev[a]]

\* loadingStates[action] || false
isLoading(states, action) == action \in DOMAIN states /\ states[action]

HookMounted ==
    /\ loadingStates = InitialStates
    /\ calls = [k \in Calls |-> NoCall]

\* withLoading up to `await operation()`
WithLoading(k, action) ==
    /\ calls[k].pc \in {"none", "settled"}
    /\ loadingStates' = setLoading(loadingStates, action, TRUE)
    /\ calls' = [calls EXCEPT ![k] = [pc |-> "awaiting", action |-> action]]
    /\ UNCHANGED <<users, tasks, taskSeq, clock, pending, resp, server>>

\* The operation resolves or rejects; the finally block of withLoading.
Settle(k, outcome) ==
    /\ calls[k].pc = "awaiting"
    /\ loadingStates' = setLoading(loadingStates, calls[k].action, FALSE)
    /\ calls' = [calls EXCEPT ![k] =
                    [pc |-> "settled", action |-> calls[k].action, outcome |-> outcome]]
    /\ UNCHANGED <<users, tasks, taskSeq, clock, pending, resp, server>>

(***************************************************************************)
(* Actions.  A response is read (ReadResponse) before the next step is     *)
(* taken, so `resp` is the response to the step just taken.                *)
(*                                                                         *)
(* A register request is suspended at its database statements: after the   *)
(* existence check (pc reg_insert) and after the INSERT (pc reg_fetch).    *)
(***************************************************************************)
RegisterStart(c, b) ==
    /\ resp = NoResp
    /\ Listening
    /\ UNCHANGED <<server, loadingStates, calls>>
    /\ pending[c] = Idle
    /\ LET r == RegisterCheck(users, b)
       IN  IF r.status # 0
           THEN /\ resp' = Respond("register", r, b)
                /\ UNCHANGED pending
           ELSE /\ pending' = [pending EXCEPT ![c] = [pc |-> "reg_insert", req |-> b]]
                /\ UNCHANGED resp
    /\ UNCHANGED <<users, tasks, taskSeq, clock>>

RegisterInsert(c) ==
    /\ resp = NoResp
    /\ Listening
    /\ UNCHANGED <<server, loadingStates, calls>>
    /\ pending[c].pc = "reg_insert"
    /\ LET b == pending[c].req
           ins == InsertUser(users, sanitizeInput(b.name), SanitizedEmail(b.email),
                             BcryptHash(b.password, SaltRounds), clock)
       IN  IF ins.ok
           THEN /\ users' = ins.users
                /\ pending' = [pending EXCEPT ![c] =
                                  [pc |-> "reg_fetch", req |-> b, id |-> ins.id,
                                   token |-> generateToken(ins.id, clock)]]
                /\ UNCHANGED resp
           ELSE /\ resp' = Respond("register", RegisterCatch(ins.code), b)
                /\ pending' = [pending EXCEPT ![c] = Idle]
                /\ UNCHANGED users
    /\ UNCHANGED <<tasks, taskSeq, clock>>

RegisterFetch(c) ==
    /\ resp = NoResp
    /\ Listening
    /\ UNCHANGED <<server, loadingStates, calls>>
    /\ pending[c].pc = "reg_fetch"
    /\ LET createdUser == CHOOSE u \in UsersById(users, pending[c].id) : TRUE
       IN  resp' = Respond("register",
                           [status |-> 201,
                            body |-> Json(TRUE, "User registered successfully", NoCode,
                                          AuthData(createdUser, pending[c].token), <<>>)],
                           pending[c].req)
    /\ pending' = [pending EXCEPT ![c] = Idle]
    /\ UNCHANGED <<users, tasks, taskSeq, clock>>

Login(b) ==
    /\ resp = NoResp
    /\ Listening
    /\ UNCHANGED <<server, loadingStates, calls>>
    /\ resp' = Respond("login", LoginHandler(users, b, clock), b)
    /\ UNCHANGED <<users, tasks, taskSeq, clock, pending>>

(***************************************************************************)
(* The task routes.  router.use(authenticateToken) runs before every one   *)
(* of them: AuthReject is a request it answers itself; the other actions   *)
(* are the handlers, run for a request it lets through with                *)
(* req.user.userId = uid.                                                  *)
(***************************************************************************)
AuthReject(h) ==
    /\ resp = NoResp
    /\ Listening
    /\ UNCHANGED <<server, loadingStates, calls>>
    /\ ~authenticateToken(h, clock).next
    /\ resp' = Respond("auth", authenticateToken(h, clock).res, h)
    /\ UNCHANGED <<users, tasks, taskSeq, clock, pending>>

Authenticated(uid) ==
    \E u \in ResolvedUsers(users, clock) : u.userId = uid

ListTasks(uid, status) ==
    /\ resp = NoResp
    /\ Listening
    /\ UNCHANGED <<server, loadingStates, calls>>
    /\ Authenticated(uid)
    /\ \E r \in ListTasksHandler(tasks, uid, status) :
          resp' = Respond("listTasks", r, TaskReq(uid, 0))
    /\ UNCHANGED <<users, tasks, taskSeq, clock, pending>>

GetTask(uid, id) ==
    /\ resp = NoResp
    /\ Listening
    /\ UNCHANGED <<server, loadingStates, calls>>
    /\ Authenticated(uid)
    /\ resp' = Respond("getTask", GetTaskHandler(tasks, uid, id), TaskReq(uid, id))
    /\ UNCHANGED <<users, tasks, taskSeq, clock, pending>>

CreateTask(uid, b) ==
    /\ resp = NoResp
    /\ Listening
    /\ UNCHANGED <<server, loadingStates, calls>>
    /\ Authenticated(uid)
    /\ LET r == CreateTaskHandler(tasks, taskSeq, uid, b, clock)
       IN  /\ r.res.status = 201 => taskSeq < MaxTasks
           /\ resp' = Respond("createTask", r.res, TaskReq(uid, 0))
           /\ tasks' = r.tasks
           /\ taskSeq' = r.seq
    /\ UNCHANGED <<users, clock, pending>>

UpdateTask(uid, id, b) ==
    /\ resp = NoResp
    /\ Listening
    /\ UNCHANGED <<server, loadingStates, calls>>
    /\ Authenticated(uid)
    /\ LET r == UpdateTaskHandler(tasks, uid, id, b, clock)
       IN  /\ resp' = Respond("updateTask", r.res, TaskReq(uid, id))
           /\ tasks' = r.tasks
    /\ UNCHANGED <<users, taskSeq, clock, pending>>

DeleteTask(uid, id) ==
    /\ resp = NoResp
    /\ Listening
    /\ UNCHANGED <<server, loadingStates, calls>>
    /\ Authenticated(uid)
    /\ LET r == DeleteTaskHandler(tasks, uid, id)
       IN  /\ resp' = Respond("deleteTask", r.res, TaskReq(uid, id))
           /\ tasks' = r.tasks
    /\ UNCHANGED <<users, taskSeq, clock, pending>>

\* The client has read the response (apiRequest awaits it before its caller
\* goes on).
ReadResponse ==
    /\ resp # NoResp
    /\ UNCHANGED <<server, loadingStates, calls>>
    /\ resp' = NoResp
    /\ UNCHANGED <<users, tasks, taskSeq, clock, pending>>

Tick ==
    /\ resp = NoResp
    /\ UNCHANGED <<server, loadingStates, calls>>
    /\ clock < MaxClock
    /\ clock' = clock + 1
    /\ UNCHANGED <<users, tasks, taskSeq, pending, resp>>

(***************************************************************************)
(* Spec: the task service used by two registered users, each request       *)
(* handled to its end before the next.                                     *)
(***************************************************************************)
SeedUsers ==
    InsertUser(
        InsertUser({}, NameAnn, EmailA, BcryptHash(PasswordA, SaltRounds), 0).users,
        NameBob, EmailB, BcryptHash(PasswordB, SaltRounds), 0).users

Init ==
    /\ users = SeedUsers
    /\ tasks = {}
    /\ taskSeq = 0
    /\ clock = 0
    /\ pending = [c \in Clients |-> Idle]
    /\ resp = NoResp
    /\ server = Started
    /\ HookMounted

Next ==
    \/ \E h \in Headers(users, clock) : AuthReject(h)
    \/ \E uid \in UserIds, f \in StatusFilters : ListTasks(uid, f)
    \/ \E uid \in UserIds, id \in TaskIds : GetTask(uid, id)
    \/ \E uid \in UserIds, b \in CreateBodies : CreateTask(uid, b)
    \/ \E uid \in UserIds, id \in TaskIds, b \in UpdateBodies : UpdateTask(uid, id, b)
    \/ \E uid \in UserIds, id \in TaskIds : DeleteTask(uid, id)
    \/ ReadResponse
    \/ Tick

Spec == Init /\ [][Next]_vars

(***************************************************************************)
(* SpecAuth: registration, login and the token check on a protected route, *)
(* from an empty database, with the register requests of two clients       *)
(* interleaved at their database statements.                               *)
(***************************************************************************)
InitAuth ==
    /\ users = {}
    /\ tasks = {}
    /\ taskSeq = 0
    /\ clock = 0
    /\ pending = [c \in Clients |-> Idle]
    /\ resp = NoResp
    /\ server = Started
    /\ HookMounted

NextAuth ==
    \/ \E c \in Clients, b \in RegisterBodies : RegisterStart(c, b)
    \/ \E c \in Clients : RegisterInsert(c)
    \/ \E c \in Clients : RegisterFetch(c)
    \/ \E b \in LoginBodies : Login(b)
    \/ \E h \in Headers(users, clock) : AuthReject(h)
    \/ \E uid \in UserIds, f \in StatusFilters : ListTasks(uid, f)
    \/ ReadResponse
    \/ Tick

SpecAuth == InitAuth /\ [][NextAuth]_vars

(***************************************************************************)
(* SpecFields: create, get and update with request bodies that set every   *)
(* field and pad titles and descriptions.  Ann (user 1) works on her tasks *)
(* next to a task that Bob (user 2) created before.                        *)
(***************************************************************************)
EmptyString == <<>>

EmptyBody == TaskBody(Undefined, Undefined, Undefined, Undefined, Undefined)

BobsBody == TaskBody(<<"b">>, Undefined, Undefined, Undefined, Day1)

FieldCreateBodies ==
    { TaskBody(<<" ", "a", " ">>, <<" ", "d">>, InProgress, Day1, Undefined),
      BobsBody,
      TaskBody(<<"b">>, Undefined, <<"Bogus">>, Day1, Undefined) }

FieldUpdateBodies ==
    { EmptyBody,
      TaskBody(Undefined, Undefined, Done, Undefined, Undefined),
      TaskBody(<<" ", "c">>, Null, Undefined, Undefined, Undefined),
      TaskBody(Undefined, Undefined, Undefined, Null, Null),
      TaskBody(<<"c">>, Undefined, <<"Bogus">>, Undefined, Undefined) }

FieldUsers == {1}

InitFields ==
    /\ users = SeedUsers
    /\ tasks = CreateTaskHandler({}, 0, 2, BobsBody, 0).tasks
    /\ taskSeq = CreateTaskHandler({}, 0, 2, BobsBody, 0).seq
    /\ clock = 0
    /\ pending = [c \in Clients |-> Idle]
    /\ resp = NoResp
    /\ server = Started
    /\ HookMounted

NextFields ==
    \/ \E uid \in FieldUsers, b \in FieldCreateBodies : CreateTask(uid, b)
    \/ \E uid \in FieldUsers, id \in TaskIds : GetTask(uid, id)
    \/ \E uid \in FieldUsers, id \in TaskIds, b \in FieldUpdateBodies : UpdateTask(uid, id, b)
    \/ ReadResponse
    \/ Tick

SpecFields == InitFields /\ [][NextFields]_vars

(***************************************************************************)
(* SpecStatus: create and update with every kind of status value: absent,  *)
(* null, the empty string, one of the three statuses, any other string.    *)
(***************************************************************************)
StatusValues == {Undefined, Null, EmptyString, InProgress, Done, <<"Bogus">>}

StatusCreateBodies ==
    {TaskBody(<<"a">>, Undefined, st, Undefined, Undefined) : st \in StatusValues}

StatusUpdateBodies ==
    {TaskBody(Undefined, Undefined, st, Undefined, Undefined) : st \in StatusValues}

NextStatus ==
    \/ \E uid \in UserIds, b \in StatusCreateBodies : CreateTask(uid, b)
    \/ \E uid \in UserIds, id \in TaskIds, b \in StatusUpdateBodies : UpdateTask(uid, id, b)
    \/ \E uid \in UserIds, f \in StatusFilters : ListTasks(uid, f)
    \/ ReadResponse

SpecStatus == Init /\ [][NextStatus]_vars

(***************************************************************************)
(* The reminder check (cron, every minute).  now.toISOString() of day n is *)
(* the text IsoDays[n + 1]; reminder_time holds the text a request sent,   *)
(* '' included, or NULL.  The comparisons are SQL's: on text, and not true *)
(* when an operand is NULL.                                                *)
(***************************************************************************)
IsoDays == <<"day0", "day1", "day2", "day3">>

ToISOString(n) == <<IsoDays[n + 1]>>

DayIndex(text) == CHOOSE i \in 1..Len(IsoDays) : text = <<IsoDays[i]>>

\* a <= b on two texts, each '' or one of IsoDays.
TextLE(a, b) ==
    \/ a = EmptyString
    \/ a # EmptyString /\ b # EmptyString /\ DayIndex(a) <= DayIndex(b)

\* WHERE t.reminder_time <= ? AND t.status != ?
SweepWhere(t, nowText) ==
    /\ t.reminder_time # Null
    /\ TextLE(t.reminder_time, nowText)
    /\ t.status # Null
    /\ t.status # Done

\* SELECT t.*, u.email FROM tasks t JOIN users u ON t.user_id = u.id WHERE ...
SweepQuery(ts, us, now) ==
    UNION {{[task |-> t, email |-> u.email] : u \in {y \in us : y.id = t.user_id}} :
           t \in {x \in ts : SweepWhere(x, ToISOString(now))}}

\* The query has no ORDER BY: the rows come in any order.
RECURSIVE AnyOrder(_)
AnyOrder(rows) ==
    IF rows = {} THEN {<<>>}
    ELSE UNION {{<<r>> \o q : q \in AnyOrder(rows \ {r})} : r \in rows}

\* One run of the reminder check: the reminders it logs, one per row.
Sweep ==
    /\ resp = NoResp
    /\ server.pc # "exited"
    /\ \E rows \in AnyOrder(SweepQuery(tasks, users, clock)) :
          resp' = Respond("sweep",
                          [status |-> 0, body |-> Json(TRUE, "", NoCode, rows, <<>>)],
                          TaskReq(0, 0))
    /\ UNCHANGED <<users, tasks, taskSeq, clock, pending, server, loadingStates, calls>>

(***************************************************************************)
(* SpecSweep: Ann creates, updates and deletes tasks with reminders while  *)
(* the reminder check runs.                                                *)
(***************************************************************************)
SweepCreateBodies ==
    { TaskBody(<<"a">>, Undefined, Undefined, Undefined, Day1),
      TaskBody(<<"a">>, Undefined, Undefined, Undefined, Undefined) }

SweepUpdateBodies ==
    { TaskBody(Undefined, Undefined, Done, Undefined, Undefined),
      TaskBody(Undefined, Undefined, Undefined, Undefined, EmptyString),
      TaskBody(Undefined, Undefined, Undefined, Undefined, Null) }

NextSweep ==
    \/ \E uid \in FieldUsers, b \in SweepCreateBodies : CreateTask(uid, b)
    \/ \E uid \in FieldUsers, id \in TaskIds, b \in SweepUpdateBodies : UpdateTask(uid, id, b)
    \/ \E uid \in FieldUsers, id \in TaskIds : DeleteTask(uid, id)
    \/ Sweep
    \/ ReadResponse
    \/ Tick

SpecSweep == Init /\ [][NextSweep]_vars

(***************************************************************************)
(* Startup.  Loading index.js requires routes/auth, whose middleware/auth   *)
(* throws when JWT_SECRET is missing: nothing catches it, the process ends *)
(* with code 1.  startServer then awaits initializeDatabase and calls      *)
(* app.listen; what initializeDatabase throws ends in process.exit(1).     *)
(* Whether the database answers an attempt, and whether initDatabase       *)
(* succeeds, is the environment's choice.                                  *)
(***************************************************************************)
\* require('./routes/auth') -> require('../middleware/auth')
loadModules(sv) ==
    IF sv.secret
    THEN [sv EXCEPT !.pc = "testConnection"]
    ELSE [sv EXCEPT !.pc = "exited", !.code = 1]

testConnectionIgnoresFailure(sv, ok) ==
    IF ok
    THEN [sv EXCEPT !.pc = "initDatabase"]
    ELSE IF sv.attempt < Retries - 1
    THEN [sv EXCEPT !.pc = "backoff"]
    ELSE [sv EXCEPT !.pc = "listening"]

\* One pass of the loop of testConnection, and what initializeDatabase does
\* with `false`.
testConnection(sv, ok) ==
    IF ok
    THEN [sv EXCEPT !.pc = "initDatabase"]
    ELSE IF sv.attempt < Retries - 1
    THEN [sv EXCEPT !.pc = "backoff"]
    ELSE [sv EXCEPT !.pc = "throw"]

\* A retry after the same delay every time.
backoffFixedDelay(sv) ==
    [sv EXCEPT !.pc = "testConnection", !.attempt = @ + 1]

\* setTimeout(resolve, delay); delay *= 2; i++
backoff(sv) ==
    [sv EXCEPT !.pc = "testConnection", !.attempt = @ + 1, !.delay = 2 * @]

\* await initDatabase(), then app.listen
initDatabase(sv, ok) ==
    IF ok
    THEN [sv EXCEPT !.pc = "listening", !.dbReady = TRUE]
    ELSE [sv EXCEPT !.pc = "throw"]

StartStep(next) ==
    /\ server' = next
    /\ UNCHANGED <<users, tasks, taskSeq, clock, pending, resp, loadingStates, calls>>

LoadModules == server.pc = "load" /\ StartStep(loadModules(server))

TestConnection(ok) == server.pc = "testConnection" /\ StartStep(testConnection(server, ok))

Backoff == server.pc = "backoff" /\ StartStep(backoff(server))

InitDatabase(ok) == server.pc = "initDatabase" /\ StartStep(initDatabase(server, ok))

\* catch (error) { process.exit(1) } of startServer
ExitOnFailure ==
    /\ server.pc = "throw"
    /\ StartStep([server EXCEPT !.pc = "exited", !.code = 1])

Startup ==
    \/ LoadModules
    \/ \E ok \in BOOLEAN : TestConnection(ok)
    \/ Backoff
    \/ \E ok \in BOOLEAN : InitDatabase(ok)
    \/ ExitOnFailure

(***************************************************************************)
(* SpecStart: the process from its start, with or without JWT_SECRET, on a *)
(* database file that holds two users, and the requests it serves.  The    *)
(* process keeps running its startup code (weak fairness).                 *)
(***************************************************************************)
InitStart ==
    /\ users = SeedUsers
    /\ tasks = {}
    /\ taskSeq = 0
    /\ clock = 0
    /\ pending = [c \in Clients |-> Idle]
    /\ resp = NoResp
    /\ \E secret \in BOOLEAN :
          server = ServerState("load", secret, 0, InitialDelay, FALSE, 0)
    /\ HookMounted

NextStart ==
    \/ LoadModules
    \/ \E ok \in BOOLEAN : TestConnection(ok)
    \/ Backoff
    \/ \E ok \in BOOLEAN : InitDatabase(ok)
    \/ ExitOnFailure
    \/ \E b \in LoginBodies : Login(b)
    \/ \E h \in Headers(users, clock) : AuthReject(h)
    \/ \E uid \in UserIds, id \in TaskIds : GetTask(uid, id)
    \/ ReadResponse
    \/ Tick

SpecStart == InitStart /\ [][NextStart]_vars /\ WF_vars(Startup)

(***************************************************************************)
(* The global error handler of index.js.  It answers the errors that a     *)
(* middleware passes on before a route is reached: express.json refuses a  *)
(* body over its limit and a charset it does not know.  NODE_ENV is read   *)
(* at the time of the response.                                            *)
(***************************************************************************)
Production == <<"production">>
Development == <<"development">>
Test == <<"test">>
NodeEnvs == {Undefined, Production, Development, Test}

NoStack == "(no stack)"
NoDetails == "(no details)"

Error(name, message, stack) == [name |-> name, message |-> message, stack |-> stack]

PayloadTooLarge ==
    Error("PayloadTooLargeError", "request entity too large",
          "PayloadTooLargeError: request entity too large at readStream")
UnsupportedCharset ==
    Error("UnsupportedMediaTypeError", "unsupported charset",
          "UnsupportedMediaTypeError: unsupported charset at jsonParser")
MiddlewareErrors == {PayloadTooLarge, UnsupportedCharset}

ErrorJson(message, code, details, stack) ==
    [success |-> FALSE, message |-> message, code |-> code, data |-> NoData,
     errors |-> <<>>, details |-> details, stack |-> stack]

GlobalErrorHandler(err, env) ==
    IF err.name = "ValidationError"
    THEN [status |-> 400,
          body |-> ErrorJson("Validation error", "VALIDATION_ERROR", err.message, NoStack)]
    ELSE IF err.name = "UnauthorizedError"
    THEN [status |-> 401,
          body |-> ErrorJson("Unauthorized", "UNAUTHORIZED", NoDetails, NoStack)]
    ELSE [status |-> 500,
          body |-> ErrorJson(IF env = Production THEN "Internal server error" ELSE err.message,
                             "INTERNAL_SERVER_ERROR", NoDetails,
                             IF env = Development THEN err.stack ELSE NoStack)]

\* A server as Started, with the NODE_ENV of its process.
StartedIn(env) ==
    [pc |-> Started.pc, secret |-> Started.secret, attempt |-> Started.attempt,
     delay |-> Started.delay, dbReady |-> Started.dbReady, code |-> Started.code,
     env |-> env]

MiddlewareError(err) ==
    /\ resp = NoResp
    /\ Listening
    /\ UNCHANGED <<server, loadingStates, calls>>
    /\ resp' = Respond("error", GlobalErrorHandler(err, server.env), err)
    /\ UNCHANGED <<users, tasks, taskSeq, clock, pending>>

(***************************************************************************)
(* SpecErrors: requests that end in a 500.  A null title makes             *)
(* title.trim() throw in PUT /:id, which its catch block answers; a body   *)
(* that express.json refuses is answered by the global error handler.      *)
(***************************************************************************)
ErrorUpdateBodies ==
    { TaskBody(Null, Undefined, Done, Undefined, Undefined),
      TaskBody(Undefined, Undefined, Done, Undefined, Undefined) }

InitErrors ==
    /\ users = SeedUsers
    /\ tasks = {}
    /\ taskSeq = 0
    /\ clock = 0
    /\ pending = [c \in Clients |-> Idle]
    /\ resp = NoResp
    /\ \E env \in NodeEnvs : server = StartedIn(env)
    /\ HookMounted

NextErrors ==
    \/ \E err \in MiddlewareErrors : MiddlewareError(err)
    \/ \E uid \in FieldUsers : CreateTask(uid, BobsBody)
    \/ \E uid \in FieldUsers, id \in TaskIds, b \in ErrorUpdateBodies : UpdateTask(uid, id, b)
    \/ \E uid \in FieldUsers, id \in TaskIds : DeleteTask(uid, id)
    \/ ReadResponse
    \/ Tick

SpecErrors == InitErrors /\ [][NextErrors]_vars

(***************************************************************************)
(* SpecDeadline: tasks created with and without a deadline, the deadline   *)
(* being an ISO timestamp or some other text.  POST / passes               *)
(* `deadline || null` to the INSERT; the column takes any text.            *)
(***************************************************************************)
NotADate == <<"not-a-date">>

DeadlineCreateBodies ==
    { TaskBody(<<"a">>, Undefined, Undefined, Day1, Undefined),
      TaskBody(<<"a">>, Undefined, Undefined, NotADate, Undefined),
      TaskBody(<<"a">>, Undefined, Undefined, Undefined, Undefined) }

NextDeadline ==
    \/ \E uid \in UserIds, b \in DeadlineCreateBodies : CreateTask(uid, b)
    \/ \E uid \in UserIds, id \in TaskIds : GetTask(uid, id)
    \/ \E uid \in UserIds, id \in TaskIds : DeleteTask(uid, id)
    \/ ReadResponse
    \/ Tick

SpecDeadline == Init /\ [][NextDeadline]_vars

(***************************************************************************)
(* SpecRace: PUT /:id and DELETE /:id suspended at their database          *)
(* statements.  A handler awaits each statement, so the statements of      *)
(* another request may run between its ownership check, its UPDATE or      *)
(* DELETE and its reload; each statement is atomic.  Each of two clients   *)
(* sends one request as Ann (user 1); task 1 is hers, task 2 is Bob's.     *)
(* An answered client keeps what it sent and what it was answered;         *)
(* `order` tells in which place its UPDATE or DELETE ran, and `overlap`    *)
(* that the other request was between its statements at that time.         *)
(***************************************************************************)
RaceUpdateBodies ==
    { TaskBody(<<"c">>, Undefined, Done, Undefined, Undefined),
      TaskBody(Undefined, Undefined, InProgress, Day1, Undefined),
      EmptyBody }

AnnsBody == TaskBody(<<"a">>, Undefined, Undefined, Undefined, Undefined)

RaceTasks ==
    CreateTaskHandler(CreateTaskHandler({}, 0, 1, AnnsBody, 0).tasks, 1, 2, BobsBody, 0).tasks

RaceReq(c, uid, id, b) == [client |-> c, userId |-> uid, id |-> id, body |-> b]

Answered(op, req, res, order, overlap) ==
    [pc |-> "answered", op |-> op, req |-> req, status |-> res.status,
     body |-> res.body, order |-> order, overlap |-> overlap]

\* Another request has passed its ownership check and is not yet answered.
InFlight(c) ==
    \E d \in Clients \ {c} : pending[d].pc \in {"upd_run", "upd_reload", "del_run"}

\* The number of UPDATE and DELETE statements that have run.
StatementsRun ==
    Cardinality({c \in Clients : /\ pending[c].pc \in {"upd_reload", "answered"}
                                 /\ pending[c].order > 0})

\* getRow('SELECT id FROM tasks WHERE id = $1 AND user_id = $2') and the
\* checks of the body that follow it without another await.
UpdateCheck(c, uid, id, b) ==
    /\ resp = NoResp
    /\ Listening
    /\ UNCHANGED <<server, loadingStates, calls>>
    /\ pending[c] = Idle
    /\ Authenticated(uid)
    /\ LET req == RaceReq(c, uid, id, b)
           res == IF OwnedTask(tasks, id, uid) = {} THEN NotFound ELSE UpdateValidate(b)
       IN  IF res.status # 0
           THEN /\ resp' = Respond("updateTask", res, req)
                /\ pending' = [pending EXCEPT ![c] = Answered("updateTask", req, res, 0, FALSE)]
           ELSE /\ pending' = [pending EXCEPT ![c] = [pc |-> "upd_run", req |-> req]]
                /\ UNCHANGED resp
    /\ UNCHANGED <<users, tasks, taskSeq, clock>>

\* await runQuery('UPDATE tasks SET ... WHERE id = $n AND user_id = $m')
UpdateRun(c) ==
    /\ resp = NoResp
    /\ Listening
    /\ UNCHANGED <<server, loadingStates, calls>>
    /\ pending[c].pc = "upd_run"
    /\ LET req == pending[c].req
       IN  /\ tasks' = UpdateStatement(tasks, req.userId, req.id, req.body, clock)
           /\ pending' = [pending EXCEPT ![c] =
                             [pc |-> "upd_reload", req |-> req, order |-> StatementsRun + 1,
                              overlap |-> InFlight(c)]]
    /\ UNCHANGED <<users, taskSeq, clock, resp>>

\* await getRow('SELECT * FROM tasks WHERE id = $1') and res.json
UpdateFetch(c) ==
    /\ resp = NoResp
    /\ Listening
    /\ UNCHANGED <<server, loadingStates, calls>>
    /\ pending[c].pc = "upd_reload"
    /\ LET req == pending[c].req
           res == UpdateReload(tasks, req.id)
       IN  /\ resp' = Respond("updateTask", res, req)
           /\ pending' = [pending EXCEPT ![c] =
                             Answered("updateTask", req, res, pending[c].order, pending[c].overlap)]
    /\ UNCHANGED <<users, tasks, taskSeq, clock>>

\* getRow('SELECT id FROM tasks WHERE id = $1 AND user_id = $2') of DELETE
DeleteCheck(c, uid, id) ==
    /\ resp = NoResp
    /\ Listening
    /\ UNCHANGED <<server, loadingStates, calls>>
    /\ pending[c] = Idle
    /\ Authenticated(uid)
    /\ LET req == RaceReq(c, uid, id, EmptyBody)
       IN  IF OwnedTask(tasks, id, uid) = {}
           THEN /\ resp' = Respond("deleteTask", NotFound, req)
                /\ pending' = [pending EXCEPT ![c] = Answered("deleteTask", req, NotFound, 0, FALSE)]
           ELSE /\ pending' = [pending EXCEPT ![c] = [pc |-> "del_run", req |-> req]]
                /\ UNCHANGED resp
    /\ UNCHANGED <<users, tasks, taskSeq, clock>>

\* await runQuery('DELETE FROM tasks WHERE id = $1 AND user_id = $2') and
\* res.json: the number of deleted rows is not looked at.
DeleteRun(c) ==
    /\ resp = NoResp
    /\ Listening
    /\ UNCHANGED <<server, loadingStates, calls>>
    /\ pending[c].pc = "del_run"
    /\ LET req == pending[c].req
           res == [status |-> 200,
                   body |-> Json(TRUE, "Task deleted successfully", NoCode, NoData, <<>>)]
       IN  /\ tasks' = DeleteStatement(tasks, req.userId, req.id)
           /\ resp' = Respond("deleteTask", res, req)
           /\ pending' = [pending EXCEPT ![c] =
                             Answered("deleteTask", req, res, StatementsRun + 1, InFlight(c))]
    /\ UNCHANGED <<users, taskSeq, clock>>

InitRace ==
    /\ users = SeedUsers
    /\ tasks = RaceTasks
    /\ taskSeq = 2
    /\ clock = 0
    /\ pending = [c \in Clients |-> Idle]
    /\ resp = NoResp
    /\ server = Started
    /\ HookMounted

NextRace ==
    \/ \E c \in Clients, uid \in FieldUsers, id \in TaskIds, b \in RaceUpdateBodies :
          UpdateCheck(c, uid, id, b)
    \/ \E c \in Clients : UpdateRun(c)
    \/ \E c \in Clients : UpdateFetch(c)
    \/ \E c \in Clients, uid \in FieldUsers, id \in TaskIds : DeleteCheck(c, uid, id)
    \/ \E c \in Clients : DeleteRun(c)
    \/ ReadResponse
    \/ Tick

SpecRace == InitRace /\ [][NextRace]_vars

(***************************************************************************)
(* SpecTokens: GET /api/tasks with each kind of Authorization header, a    *)
(* token of generateRefreshToken included.  router.use(authenticateToken)  *)
(* runs first; the handler runs with the req.user it sets.                 *)
(***************************************************************************)
RefreshTokenDays == 7

generateRefreshToken(userId, now) ==
    JwtSign([userId |-> userId, iat |-> now, type |-> "refresh"], RefreshTokenDays)

RefreshTokens(us, now) ==
    UNION {{generateRefreshToken(u.id, t) : t \in u.created_at..now} : u \in us}

TokenHeaders(us, now) ==
    Headers(us, now) \cup {Bearer(t) : t \in RefreshTokens(us, now)}

ListTasksWith(h) ==
    /\ resp = NoResp
    /\ Listening
    /\ UNCHANGED <<server, loadingStates, calls>>
    /\ LET a == authenticateToken(h, clock)
       IN  IF ~a.next
           THEN resp' = Respond("listTasks", a.res, h)
           ELSE \E r \in ListTasksHandler(tasks, a.user.userId, Undefined) :
                   resp' = Respond("listTasks", r, h)
    /\ UNCHANGED <<users, tasks, taskSeq, clock, pending>>

NextTokens ==
    \/ \E h \in TokenHeaders(users, clock) : ListTasksWith(h)
    \/ \E uid \in UserIds : CreateTask(uid, BobsBody)
    \/ ReadResponse
    \/ Tick

SpecTokens == Init /\ [][NextTokens]_vars

(***************************************************************************)
(* SpecLoading: two withLoading calls of one component, on the same or on  *)
(* different actions, that may overlap.                                    *)
(***************************************************************************)
NextLoading ==
    \/ \E k \in Calls, action \in LoadingActions : WithLoading(k, action)
    \/ \E k \in Calls, outcome \in {"resolved", "rejected"} : Settle(k, outcome)

SpecLoading == Init /\ [][NextLoading]_vars

(***************************************************************************)
(* Properties.                                                             *)
(***************************************************************************)
Owns(uid, id) == \E t \in tasks : t.id = id /\ t.user_id = uid
Foreign(uid, id) == \E t \in tasks : t.id = id /\ t.user_id # uid

\* An id no task ever has.
UnusedId == MaxTasks + 1

\* C1: getTask by a user who does not own the task answers 404 'Task not
\* found' without any data of the task, and that answer is the one the same
\* user gets for an id that no task has.
C1_ForeignTaskLooksMissing ==
    /\ \A uid \in UserIds, id \in TaskIds :
          Foreign(uid, id) =>
             /\ GetTaskHandler(tasks, uid, id).status = 404
             /\ GetTaskHandler(tasks, uid, id).body.message = "Task not found"
             /\ GetTaskHandler(tasks, uid, id).body.data = NoData
             /\ GetTaskHandler(tasks, uid, id) = GetTaskHandler(tasks, uid, UnusedId)
    /\ (resp.op = "getTask" /\ ~Owns(resp.req.userId, resp.req.id)) =>
          /\ resp.status = 404
          /\ resp.body = Json(FALSE, "Task not found", NoCode, NoData, <<>>)

C1_Witness ==
    /\ resp.op = "getTask"
    /\ resp.status = 404
    /\ Foreign(resp.req.userId, resp.req.id)

IsDescending(rows) ==
    \A i, j \in 1..Len(rows) : i < j => rows[i].created_at >= rows[j].created_at

RowsOf(rows) == {rows[i] : i \in 1..Len(rows)}

\* C2: listTasks of owner U returns exactly U's stored tasks (those with the
\* filter's status when the filter is one of the three statuses, all of them
\* when it is absent or any other value, which is not rejected), each once,
\* in descending order of created_at.
C2_ListIsOwnersTasks ==
    /\ \A uid \in UserIds, f \in StatusFilters :
          \A r \in ListTasksHandler(tasks, uid, f) :
             /\ r.status = 200
             /\ r.body.success
             /\ RowsOf(r.body.data) =
                   IF f \in {ToDo, InProgress, Done}
                   THEN {t \in tasks : t.user_id = uid /\ t.status = f}
                   ELSE {t \in tasks : t.user_id = uid}
             /\ Len(r.body.data) = Cardinality(RowsOf(r.body.data))
             /\ IsDescending(r.body.data)
    /\ resp.op = "listTasks" =>
          /\ resp.status = 200
          /\ RowsOf(resp.body.data) \subseteq {t \in tasks : t.user_id = resp.req.userId}
          /\ IsDescending(resp.body.data)

C2_Witness ==
    /\ resp.op = "listTasks"
    /\ Len(resp.body.data) = 2
    /\ resp.body.data[1].created_at > resp.body.data[2].created_at
    /\ resp.body.data[1].id > resp.body.data[2].id

\* C3: an updateTask or deleteTask for an id that is not a task of the
\* requesting user answers 404 'Task not found' and leaves the tasks table
\* as it was.
C3_NonOwnerWriteIsNotFound ==
    [][(/\ resp = NoResp
        /\ resp'.op \in {"updateTask", "deleteTask"}
        /\ ~Owns(resp'.req.userId, resp'.req.id))
       => (/\ resp'.status = 404
           /\ resp'.body = Json(FALSE, "Task not found", NoCode, NoData, <<>>)
           /\ tasks' = tasks)]_vars

C3_Witness ==
    /\ resp.op \in {"updateTask", "deleteTask"}
    /\ resp.status = 404
    /\ Foreign(resp.req.userId, resp.req.id)

\* C4: the token a successful registration returns, presented as a bearer
\* token while it has not expired, passes authenticateToken with
\* req.user.userId the id of the user row just created, which is the
\* userId of the response and the id of no other user.
C4_RegisterTokenResolves ==
    /\ (resp.op = "register" /\ resp.status = 201) =>
          LET d == resp.body.data
              a == authenticateToken(Bearer(d.token), clock)
          IN  /\ \E u \in users :
                    /\ u.id = d.userId
                    /\ u.email = d.email
                    /\ u.email = ToLowerCase(sanitizeInput(resp.req.email))
              /\ clock < d.token.payload.exp =>
                    /\ a.next
                    /\ a.user.userId = d.userId
                    /\ \A u \in users : u.email # d.email => a.user.userId # u.id
    /\ \A c \in Clients :
          pending[c].pc = "reg_fetch" =>
             /\ pending[c].token.payload.userId = pending[c].id
             /\ \E u \in users : u.id = pending[c].id

C4_Witness ==
    /\ resp.op = "register"
    /\ resp.status = 201
    /\ resp.body.data.userId = 2
    /\ Cardinality(users) = 2
    /\ authenticateToken(Bearer(resp.body.data.token), clock).next

\* The normalized form of an e-mail address: sanitized, trimmed, lower case.
Normalized(email) == ToLowerCase(sanitizeInput(email))

PassesValidation(b) ==
    /\ ValidateRegistrationErrors(b) = <<>>
    /\ Len(sanitizeInput(b.name)) >= NameMinLen

\* C5: a register request that passes input validation and whose e-mail
\* normalizes to the e-mail of a user stored when the request checks for it
\* answers 409 USER_EXISTS, inserts no user and does not go on to insert.
C5_DuplicateEmailConflicts ==
    [][/\ (/\ resp = NoResp
           /\ resp'.op = "register"
           /\ pending' = pending
           /\ PassesValidation(resp'.req)
           /\ \E u \in users : ToLowerCase(u.email) = Normalized(resp'.req.email))
          => (/\ resp'.status = 409
              /\ resp'.body.code = "USER_EXISTS"
              /\ users' = users)
       /\ \A c \in Clients :
             (pending[c] = Idle /\ pending'[c] # Idle)
                => ~\E u \in users :
                       ToLowerCase(u.email) = Normalized(pending'[c].req.email)]_vars

C5_Witness ==
    /\ resp.op = "register"
    /\ resp.status = 409
    /\ resp.req.email = <<" ", "A", "@", "X", ".", "c">>
    /\ \E u \in users : u.email = EmailA

\* C6: no two stored users have the same e-mail, compared without regard to
\* letter case, also when register requests for the same e-mail interleave
\* between their existence check and their insert.
C6_EmailsUnique ==
    \A u1, u2 \in users :
        u1 # u2 => /\ ToLowerCase(u1.email) # ToLowerCase(u2.email)
                   /\ u1.id # u2.id

\* Both clients have passed the existence check for the same e-mail.
C6_Witness ==
    /\ pending["c1"].pc = "reg_insert"
    /\ pending["c2"].pc \in {"reg_insert", "reg_fetch"}
    /\ Normalized(pending["c1"].req.email) = Normalized(pending["c2"].req.email)
    /\ \E u \in users : u.email = Normalized(pending["c1"].req.email)

KnownEmail(b) == \E u \in users : u.email = Normalized(b.email)

WrongPassword(b) ==
    \E u \in users : u.email = Normalized(b.email) /\ u.password.of # b.password

\* C7: a login with the e-mail of a stored user and a wrong password, and a
\* login with an e-mail of no stored user, get the same response: status
\* 401 with the same message and code.
C7_LoginFailuresAlike ==
    /\ \A b1 \in LoginBodies :
          (ValidateLoginErrors(b1) = <<>> /\ WrongPassword(b1)) =>
             /\ LoginHandler(users, b1, clock).status = 401
             /\ \A b2 \in LoginBodies :
                   (ValidateLoginErrors(b2) = <<>> /\ ~KnownEmail(b2)) =>
                      LoginHandler(users, b1, clock) = LoginHandler(users, b2, clock)
    /\ (/\ resp.op = "login"
        /\ ValidateLoginErrors(resp.req) = <<>>
        /\ WrongPassword(resp.req) \/ ~KnownEmail(resp.req))
       => /\ resp.status = 401
          /\ resp.body = Json(FALSE, "Invalid email or password",
                              "INVALID_CREDENTIALS", NoData, <<>>)

C7_Witness ==
    /\ resp.op = "login"
    /\ resp.status = 401
    /\ WrongPassword(resp.req)

\* The outcome the middleware is to give a header at time `now`.
ExpectedAuthCode(h, now) ==
    IF ~h.present \/ (h.scheme = "" /\ h.segs = <<>>) THEN "MISSING_TOKEN"
    ELSE IF h.segs = <<>> \/ h.segs[1].raw = "" THEN "INVALID_TOKEN_FORMAT"
    ELSE IF h.segs[1].raw = "jwt" /\ h.segs[1].sig = "server"
            /\ now >= h.segs[1].payload.exp THEN "TOKEN_EXPIRED"
    ELSE IF h.segs[1].raw # "jwt" \/ h.segs[1].sig # "server" THEN "INVALID_TOKEN"
    ELSE "accepted"

C8_Classified ==
    /\ \A h \in Headers(users, clock) :
          LET a == authenticateToken(h, clock)
          IN  IF ExpectedAuthCode(h, clock) = "accepted"
              THEN /\ a.next
                   /\ a.user = [userId |-> h.segs[1].payload.userId,
                                tokenIssuedAt |-> h.segs[1].payload.iat,
                                tokenExpiresAt |-> h.segs[1].payload.exp]
              ELSE /\ ~a.next
                   /\ a.user = NoUser
                   /\ a.res.status = 401
                   /\ a.res.body.code = ExpectedAuthCode(h, clock)
    /\ resp.op = "auth" =>
          /\ resp.status = 401
          /\ resp.body.code = ExpectedAuthCode(resp.req, clock)
          /\ resp.body.code # "accepted"

C8_NoHandler ==
    /\ (resp = NoResp /\ resp'.op = "auth") =>
          UNCHANGED <<users, tasks, taskSeq, pending>>
    /\ (resp = NoResp /\ resp'.op \in {"listTasks", "getTask", "createTask",
                                        "updateTask", "deleteTask"}) =>
          \E h \in Headers(users, clock) :
             /\ ExpectedAuthCode(h, clock) = "accepted"
             /\ h.segs[1].payload.userId = resp'.req.userId

\* C8: authenticateToken answers a request without header 401 MISSING_TOKEN,
\* one without a token segment 401 INVALID_TOKEN_FORMAT, one with a server-
\* signed token that has expired 401 TOKEN_EXPIRED, one with a token of
\* invalid signature or structure 401 INVALID_TOKEN; req.user is set, and a
\* task handler runs, only for a request whose token verifies.
C8_AuthOutcomes == []C8_Classified /\ [][C8_NoHandler]_vars

C8_Witness ==
    /\ resp.op = "auth"
    /\ resp.body.code = "TOKEN_EXPIRED"
    /\ tasks # {}

\* C9: a request is let through only if its Authorization header is
\* 'Bearer <token>'; a valid token under another scheme word is rejected.
C9_OnlyBearerAccepted ==
    \A h \in Headers(users, clock) :
        authenticateToken(h, clock).next => h.scheme = "Bearer"

\* C10: the data of a 201 createTask response is the created task row, as
\* stored, with status 'To Do' when the request gave no status.
C10_CreateReturnsRow ==
    (resp.op = "createTask" /\ resp.status = 201) =>
       /\ Len(resp.body.data) = 1
       /\ resp.body.data[1] \in tasks
       /\ resp.body.data[1].user_id = resp.req.userId

\* The row getTask returns to the owner right after a createTask with body b
\* was answered 201, fetched by the id of the create response.
FetchedAfterCreate(uid, b) ==
    LET r == CreateTaskHandler(tasks, taskSeq, uid, b, clock)
    IN  GetTaskHandler(r.tasks, uid, r.res.body.data[1].id)

Created(uid, b) == CreateTaskHandler(tasks, taskSeq, uid, b, clock).res.status = 201

\* C11 as stated: getTask right after createTask returns the title, the
\* description, the status and the deadline exactly as they were sent.
C11_RoundTripExact ==
    \A uid \in FieldUsers, b \in FieldCreateBodies :
        Created(uid, b) =>
           /\ FetchedAfterCreate(uid, b).status = 200
           /\ FetchedAfterCreate(uid, b).body.data[1].title = b.title
           /\ IsString(b.description) =>
                 FetchedAfterCreate(uid, b).body.data[1].description = b.description
           /\ b.status \in Statuses =>
                 FetchedAfterCreate(uid, b).body.data[1].status = b.status
           /\ Truthy(b.deadline) =>
                 FetchedAfterCreate(uid, b).body.data[1].deadline = b.deadline

\* C11: getTask by the owner right after a createTask returns the title and
\* the description that were sent with their leading and trailing white
\* space removed, and the status and the deadline exactly as sent; the row
\* a getTask returns is the stored row of that id and owner.
C11_RoundTripTrimmed ==
    /\ \A uid \in FieldUsers, b \in FieldCreateBodies :
          Created(uid, b) =>
             /\ FetchedAfterCreate(uid, b).status = 200
             /\ FetchedAfterCreate(uid, b).body.data[1].user_id = uid
             /\ FetchedAfterCreate(uid, b).body.data[1].title = Trim(b.title)
             /\ IsString(b.description) =>
                   FetchedAfterCreate(uid, b).body.data[1].description = Trim(b.description)
             /\ b.status \in Statuses =>
                   FetchedAfterCreate(uid, b).body.data[1].status = b.status
             /\ Truthy(b.deadline) =>
                   FetchedAfterCreate(uid, b).body.data[1].deadline = b.deadline
    /\ (resp.op = "getTask" /\ resp.status = 200) =>
          /\ resp.body.data[1] \in tasks
          /\ resp.body.data[1].id = resp.req.id
          /\ resp.body.data[1].user_id = resp.req.userId

C11_Witness ==
    /\ resp.op = "getTask"
    /\ resp.status = 200
    /\ resp.body.data[1].title = <<"a">>
    /\ resp.body.data[1].description = <<"d">>
    /\ resp.body.data[1].status = InProgress
    /\ resp.body.data[1].deadline = Day1
    /\ resp.body.data[1].updated_at = resp.body.data[1].created_at

BodyFields == {"title", "description", "status", "deadline", "reminder_time"}

\* The value an update stores for a field that the body carries.
StoredValue(b, f) ==
    IF f = "title" THEN Trim(b.title)
    ELSE IF f = "description" THEN (IF IsString(b.description) THEN Trim(b.description) ELSE <<>>)
    ELSE b[f]

C12_Frame ==
    \A uid \in FieldUsers, id \in TaskIds, b \in FieldUpdateBodies :
        LET r == UpdateTaskHandler(tasks, uid, id, b, clock)
        IN  r.res.status = 200 =>
               \E old \in tasks, new \in r.tasks :
                  /\ old.id = id /\ new.id = id
                  /\ old.user_id = uid /\ new.user_id = uid
                  /\ new.created_at = old.created_at
                  /\ new.updated_at = clock
                  /\ \A f \in BodyFields :
                        new[f] = IF b[f] = Undefined THEN old[f] ELSE StoredValue(b, f)
                  /\ r.tasks \ {new} = tasks \ {old}
                  /\ r.res.body.data = <<new>>

C12_Step ==
    (resp = NoResp /\ resp'.op = "updateTask" /\ resp'.status = 200) =>
       /\ \A t \in tasks : t.id # resp'.req.id => t \in tasks'
       /\ \A t \in tasks' : t.id # resp'.req.id => t \in tasks
       /\ \A t \in tasks : t.id = resp'.req.id =>
             \E n \in tasks' : /\ n.id = t.id
                               /\ n.user_id = t.user_id
                               /\ n.created_at = t.created_at
                               /\ n.updated_at = clock

\* C12: a successful updateTask by the owner gives each field among title,
\* description, status, deadline and reminder_time that the body carries the
\* value sent (title and description trimmed) and sets updated_at; a field
\* the body does not carry keeps its value, id, user_id and created_at stay,
\* and every other task stays as it is.
C12_UpdateChangesOnlySentFields == []C12_Frame /\ [][C12_Step]_vars

C12_Witness ==
    /\ resp.op = "updateTask"
    /\ resp.status = 200
    /\ resp.body.data[1].status = Done
    /\ resp.body.data[1].title = <<"a">>
    /\ resp.body.data[1].description = <<"d">>
    /\ resp.body.data[1].deadline = Day1
    /\ resp.body.data[1].updated_at > resp.body.data[1].created_at
    /\ \E t \in tasks : t.user_id # resp.req.userId

C13_EmptyRejected ==
    \A uid \in FieldUsers, id \in TaskIds :
        Owns(uid, id) =>
           /\ UpdateTaskHandler(tasks, uid, id, EmptyBody, clock).res.status = 400
           /\ UpdateTaskHandler(tasks, uid, id, EmptyBody, clock).res.body.message
                 = "No fields to update"
           /\ UpdateTaskHandler(tasks, uid, id, EmptyBody, clock).tasks = tasks

C13_Step ==
    /\ (resp = NoResp /\ resp'.op = "updateTask" /\ resp'.status # 200) => tasks' = tasks
    /\ (\E t \in tasks, n \in tasks' : n.id = t.id /\ n.updated_at # t.updated_at) =>
          /\ resp'.op = "updateTask"
          /\ resp'.status = 200
          /\ \E b \in FieldUpdateBodies :
                /\ \E f \in BodyFields : b[f] # Undefined
                /\ tasks' = UpdateTaskHandler(tasks, resp'.req.userId, resp'.req.id, b, clock).tasks

\* C13: an updateTask by the owner whose body carries none of title,
\* description, status, deadline and reminder_time is answered 400 'No
\* fields to update' and changes no field of any task, updated_at included;
\* updated_at of a task changes only in an update that is answered 200 and
\* carries at least one of those keys.
C13_EmptyUpdateRejected == []C13_EmptyRejected /\ [][C13_Step]_vars

C13_Witness ==
    /\ resp.op = "updateTask"
    /\ resp.status = 400
    /\ resp.body.message = "No fields to update"
    /\ \E t \in tasks : /\ t.id = resp.req.id
                        /\ t.user_id = resp.req.userId
                        /\ t.updated_at < clock

StoredId(id) == \E t \in tasks : t.id = id

\* Every request for an id that no stored task has is answered 404, and no
\* list holds a task of that id.
C14_GoneIsNotFound ==
    /\ \A t \in tasks : t.id \in 1..taskSeq
    /\ \A uid \in UserIds, id \in 1..UnusedId :
          ~StoredId(id) =>
             /\ GetTaskHandler(tasks, uid, id) = NotFound
             /\ DeleteTaskHandler(tasks, uid, id).res = NotFound
             /\ \A b \in UpdateBodies : UpdateTaskHandler(tasks, uid, id, b, clock).res = NotFound
             /\ \A f \in StatusFilters : \A r \in ListTasksHandler(tasks, uid, f) :
                   \A i \in 1..Len(r.body.data) : r.body.data[i].id # id

C14_Step ==
    /\ (/\ resp = NoResp
        /\ resp'.op \in {"getTask", "updateTask", "deleteTask"}
        /\ ~StoredId(resp'.req.id))
       => (resp'.status = 404 /\ tasks' = tasks)
    /\ (resp = NoResp /\ resp'.op = "deleteTask" /\ resp'.status = 200) =>
          /\ StoredId(resp'.req.id)
          /\ tasks' = {t \in tasks : t.id # resp'.req.id}
    /\ \A id \in TaskIds : (id <= taskSeq /\ ~StoredId(id)) => ~StoredId(id)'

\* C14: a deleteTask answered with success removes the task of that id and
\* no other; an id that was handed out and is no longer stored is never
\* stored again, and every getTask, updateTask and deleteTask for an id that
\* is not stored is answered 404 'Task not found', by any user, and no
\* listTasks returns a task of that id.
C14_DeletedStaysGone == []C14_GoneIsNotFound /\ [][C14_Step]_vars

C14_Witness ==
    /\ resp.op \in {"getTask", "deleteTask"}
    /\ resp.status = 404
    /\ resp.req.id <= taskSeq
    /\ ~StoredId(resp.req.id)
    /\ \E t \in tasks : t.user_id = resp.req.userId

\* C15: the status of every stored task is one of 'To Do', 'In Progress'
\* and 'Done', whatever status values createTask and updateTask were sent.
C15_StatusInEnum == \A t \in tasks : t.status \in Statuses

\* The password rule of the specification: a lowercase letter, an uppercase
\* letter, a digit, and a length of 6 to 128.
StrongPassword(pw) ==
    /\ IsString(pw)
    /\ Len(pw) >= PasswordMinLen /\ Len(pw) <= PasswordMaxLen
    /\ \E i \in 1..Len(pw) : IsLower(pw[i])
    /\ \E i \in 1..Len(pw) : IsUpper(pw[i])
    /\ \E i \in 1..Len(pw) : pw[i] \in Digits

\* C16: a register request whose password lacks a lowercase letter, an
\* uppercase letter or a digit, or has a length outside 6 to 128, is
\* answered 400 and no user is stored with such a password.
C16_WeakPasswordRejected ==
    /\ (resp.op = "register" /\ ~StrongPassword(resp.req.password)) => resp.status = 400
    /\ \A u \in users : StrongPassword(u.password.of)

InputFields == {"name", "email", "password", "confirmPassword"}

\* The constraint of validateRegistration that a field of the body violates.
FieldInvalid(b, f) ==
    IF f = "name"
    THEN ~Truthy(b.name) \/ Len(Trim(b.name)) < NameMinLen \/ Len(Trim(b.name)) > NameMaxLen
    ELSE IF f = "email"
    THEN ~Truthy(b.email) \/ ~EmailRegexTest(Trim(b.email)) \/ Len(Trim(b.email)) > EmailMaxLen
    ELSE IF f = "password"
    THEN ~Truthy(b.password) \/ Len(b.password) < PasswordMinLen
                             \/ Len(b.password) > PasswordMaxLen
    ELSE ~Truthy(b.confirmPassword) \/ b.password # b.confirmPassword

\* The violation messages that are about a field.
FieldMessages(f) ==
    IF f = "name"
    THEN {"Name is required and must be a string",
          "Name must be at least 2 characters long",
          "Name cannot exceed 100 characters"}
    ELSE IF f = "email"
    THEN {"Email is required and must be a string",
          "Please provide a valid email address",
          "Email cannot exceed 255 characters"}
    ELSE IF f = "password"
    THEN {"Password is required and must be a string",
          "Password must be at least 6 characters long",
          "Password cannot exceed 128 characters"}
    ELSE {"Password confirmation is required", "Passwords do not match"}

ListsEveryInvalidField(b, res) ==
    /\ res.status = 400
    /\ res.body.code = "VALIDATION_ERROR"
    /\ \A f \in InputFields :
          FieldInvalid(b, f) <=>
             \E i \in 1..Len(res.body.errors) : res.body.errors[i] \in FieldMessages(f)

C17_Collected ==
    /\ resp = NoResp =>
          \A b \in RegisterBodies :
             (\E f \in InputFields : FieldInvalid(b, f)) =>
                ListsEveryInvalidField(b, RegisterCheck(users, b))
    /\ (resp.op = "register" /\ \E f \in InputFields : FieldInvalid(resp.req, f)) =>
          ListsEveryInvalidField(resp.req, resp)

C17_Step ==
    (resp = NoResp /\ resp'.op = "register" /\ resp'.status = 400) =>
       (users' = users /\ pending' = pending)

LoginOf(b, u) ==
    /\ ValidateLoginErrors(b) = <<>>
    /\ Normalized(b.email) = u.email
    /\ b.password = u.password.of

LoginGivesUser(res, id, now) ==
    /\ res.status = 200
    /\ res.body.data.userId = id
    /\ res.body.data.token.payload.iat = now
    /\ authenticateToken(Bearer(res.body.data.token), now).next
    /\ authenticateToken(Bearer(res.body.data.token), now).user.userId = id

DueTasks(ts, now) ==
    {t \in ts : /\ t.reminder_time \notin {Null, EmptyString}
                /\ DayIndex(t.reminder_time) <= DayIndex(ToISOString(now))
                /\ t.status # Done}

\* C19: a run of the reminder check reports exactly the tasks whose
\* reminder_time is set and not later than the time of the run and whose
\* status is not 'Done', each with the e-mail of its owner, and a task is
\* no longer reported once its reminder_time was cleared.
C19_SweepReportsDue ==
    resp.op = "sweep" =>
       /\ {resp.body.data[i].task : i \in 1..Len(resp.body.data)} = DueTasks(tasks, clock)
       /\ \A i \in 1..Len(resp.body.data) :
             \E u \in users : /\ u.id = resp.body.data[i].task.user_id
                              /\ u.email = resp.body.data[i].email

C20_Gate ==
    /\ Listening => (server.secret /\ server.dbReady)
    /\ server.dbReady => server.secret
    /\ (~server.secret \/ ~server.dbReady) => resp = NoResp
    /\ server.pc = "exited" => (server.code = 1 /\ ~server.dbReady /\ resp = NoResp)
    /\ server.pc = "throw" => (server.dbReady = FALSE)

C20_Step ==
    /\ (resp' # resp /\ resp' # NoResp) => (Listening /\ server.secret /\ server.dbReady)
    /\ (~Listening /\ Listening') => (server.pc = "initDatabase" /\ server.secret)
    /\ server.pc = "exited" => server' = server

\* The secret is missing, or the last connection attempt has failed.
C20_Fatal ==
    \/ ~server.secret
    \/ server.pc = "throw" /\ server.attempt = Retries - 1

C20_Terminated == server.pc = "exited" /\ server.code = 1

\* C20: the server listens, and a request is answered, only after
\* initializeDatabase has resolved in a process that has JWT_SECRET; a
\* process without the secret, or whose every connection attempt failed,
\* ends with exit code 1 and never answers a request.
C20_StartupGate ==
    /\ []C20_Gate
    /\ [][C20_Step]_vars
    /\ (C20_Fatal ~> C20_Terminated)

C20_Witness ==
    /\ server.pc = "exited"
    /\ server.code = 1
    /\ server.secret
    /\ server.attempt = Retries - 1
    /\ server.delay = 16 * InitialDelay

RawMessages == {e.message : e \in MiddlewareErrors}
RawStacks == {e.stack : e \in MiddlewareErrors}

\* C21: outside development (NODE_ENV unset included), a 500 response of a
\* route handler's catch block or of the global error handler carries
\* neither the raw error message nor a stack trace.
C21_NoLeakOutsideDevelopment ==
    (resp.status = 500 /\ server.env # Development) =>
        /\ resp.body.message \notin RawMessages
        /\ "stack" \in DOMAIN resp.body => resp.body.stack \notin RawStacks

\* The text parses as a timestamp: it is what toISOString gives for some time.
ValidTimestamp(text) == \E n \in 0..(Len(IsoDays) - 1) : text = ToISOString(n)

\* C22: a task is stored only when its supplied deadline is a valid
\* timestamp; a create with another deadline is answered 400 and inserts
\* nothing.
C22_StoredDeadlineValid ==
    \A t \in tasks : t.deadline # Null => ValidTimestamp(t.deadline)

\* C23: a 200 response of updateTask carries the complete current stored
\* row of the requested task, owned by the requester, also when other
\* requests on the task run between the statements of the handler.
C23_UpdateReturnsCurrentRow ==
    (resp.op = "updateTask" /\ resp.status = 200) =>
        /\ Len(resp.body.data) = 1
        /\ resp.body.data[1] \in OwnedTask(tasks, resp.req.id, resp.req.userId)

\* The UPDATE statement of client c has run.
RanUpdate(c) ==
    \/ pending[c].pc = "upd_reload"
    \/ /\ pending[c].pc = "answered"
       /\ pending[c].op = "updateTask"
       /\ pending[c].order > 0

\* The DELETE statement of client c has run.
RanDelete(c) ==
    /\ pending[c].pc = "answered"
    /\ pending[c].op = "deleteTask"
    /\ pending[c].order > 0

UpdateSucceeded(c) ==
    pending[c].pc = "answered" =>
        /\ pending[c].status = 200
        /\ pending[c].body.success
        /\ pending[c].body.message = "Task updated successfully"

InitialRow(id) == CHOOSE t \in RaceTasks : t.id = id

\* C24: two concurrent updates of one task by its owner both succeed and
\* neither is told of a conflict; afterwards a field written by both holds
\* the value of the UPDATE that ran last, and a field written by one of
\* them holds that request's value.
C24_LastWriteWins ==
    \A c, d \in Clients :
        (/\ c # d
         /\ RanUpdate(c) /\ RanUpdate(d)
         /\ pending[c].req.id = pending[d].req.id
         /\ pending[c].order < pending[d].order) =>
            /\ UpdateSucceeded(c) /\ UpdateSucceeded(d)
            /\ \E t \in TasksById(tasks, pending[c].req.id) :
                  \A f \in BodyFields :
                      t[f] = IF pending[d].req.body[f] # Undefined
                             THEN StoredValue(pending[d].req.body, f)
                             ELSE IF pending[c].req.body[f] # Undefined
                             THEN StoredValue(pending[c].req.body, f)
                             ELSE InitialRow(t.id)[f]

C24_Witness ==
    /\ pending["c1"].pc = "answered" /\ pending["c2"].pc = "answered"
    /\ pending["c1"].op = "updateTask" /\ pending["c2"].op = "updateTask"
    /\ pending["c1"].status = 200 /\ pending["c2"].status = 200
    /\ pending["c1"].req.id = pending["c2"].req.id
    /\ pending["c1"].req.body # pending["c2"].req.body
    /\ pending["c1"].order = 1 /\ pending["c2"].order = 2
    /\ pending["c1"].overlap /\ pending["c2"].overlap

\* An UPDATE of client c ran after the DELETE of client d had removed the
\* task that c had checked.
LostUpdate(c, d) ==
    /\ c # d
    /\ RanUpdate(c) /\ RanDelete(d)
    /\ pending[c].req.id = pending[d].req.id
    /\ pending[d].order < pending[c].order

C25_Lost ==
    \A c, d \in Clients :
        LostUpdate(c, d) =>
            /\ TasksById(tasks, pending[c].req.id) = {}
            /\ tasks = {t \in RaceTasks : t.id # pending[c].req.id}
            /\ UpdateSucceeded(c)

C25_Step ==
    \A c \in Clients :
        (/\ pending[c].pc = "upd_run"
         /\ pending'[c].pc = "upd_reload"
         /\ OwnedTask(tasks, pending[c].req.id, pending[c].req.userId) = {}) =>
            tasks' = tasks

\* C25: when a delete of a task commits between the ownership check and the
\* UPDATE of an update request, the UPDATE changes no row: the task stays
\* deleted, no other task is modified, and the update request is answered
\* without an error.
C25_UpdateAfterDeleteIsSilent == []C25_Lost /\ [][C25_Step]_vars

C25_Witness ==
    /\ LostUpdate("c1", "c2")
    /\ pending["c1"].pc = "answered"
    /\ pending["c1"].status = 200

\* C29: of all delete requests of the owner for one task, those whose
\* ownership check and DELETE interleave included, at most one is answered
\* with success; every other one is answered 404.
C29_OneDeleteSucceeds ==
    \A c, d \in Clients :
        (/\ c # d
         /\ pending[c].pc = "answered" /\ pending[d].pc = "answered"
         /\ pending[c].op = "deleteTask" /\ pending[d].op = "deleteTask"
         /\ pending[c].req.id = pending[d].req.id
         /\ pending[c].req.userId = pending[d].req.userId) =>
            \/ pending[c].status = 404
            \/ pending[d].status = 404

\* C26: of two register requests for one normalized email that both pass
\* the existence check, one inserts and is answered 201; the other, whose
\* INSERT the uniqueness constraint refuses, is answered 409 USER_EXISTS
\* and not 500.
C26_RefusedInsertIsConflict ==
    (/\ resp.op = "register"
     /\ PassesValidation(resp.req)
     /\ resp.status # 201) =>
        /\ resp.status = 409
        /\ resp.body.code = "USER_EXISTS"

\* testConnection is running: at an attempt or waiting for the next one.
Connecting == server.pc \in {"testConnection", "backoff"}

C27_Bounded ==
    /\ server.attempt \in 0..(Retries - 1)
    /\ server.delay = InitialDelay * 2^server.attempt
    /\ server.pc = "backoff" => server.attempt < Retries - 1

C27_Step ==
    /\ (server.pc = "testConnection" /\ server'.pc = "initDatabase")
           => (server'.attempt = server.attempt /\ server'.delay = server.delay)
    /\ (server.pc = "testConnection" /\ server'.pc = "backoff")
           => (server.attempt < Retries - 1 /\ server'.delay = server.delay)
    /\ (server.pc = "testConnection" /\ server'.pc = "throw")
           => server.attempt = Retries - 1
    /\ (server.pc = "testConnection" /\ server' # server)
           => server'.pc \in {"initDatabase", "backoff", "throw"}
    /\ (server.pc = "backoff" /\ server' # server)
           => /\ server'.pc = "testConnection"
              /\ server'.attempt = server.attempt + 1
              /\ server'.delay = 2 * server.delay
    /\ ~Connecting => (server'.attempt = server.attempt /\ server'.delay = server.delay)

\* C27: testConnection(5, 1000) terminates: at most 5 attempts, none after
\* the first that succeeds, waits of 1000, 2000, 4000 and 8000 ms after the
\* 1st to 4th failure, no wait after the 5th, upon which it returns false
\* and initializeDatabase throws.
C27_TestConnectionTerminates ==
    /\ []C27_Bounded
    /\ [][C27_Step]_vars
    /\ (Connecting ~> server.pc \in {"initDatabase", "throw"})

C27_Witness ==
    /\ server.pc = "backoff"
    /\ server.attempt = Retries - 2
    /\ server.delay = 8 * InitialDelay

\* C28: authenticateToken lets a token pass only if its type claim is
\* 'access'; a signed, unexpired token of generateRefreshToken is rejected
\* and resolves no identity.
C28_OnlyAccessTokens ==
    (/\ resp.op = "listTasks"
     /\ resp.req.present
     /\ Len(resp.req.segs) >= 1
     /\ resp.req.segs[1].payload.type # "access") =>
        resp.status = 401

\* An operation started through withLoading(action, ...) has not settled.
Unsettled(action) ==
    \E k \in Calls : calls[k].pc = "awaiting" /\ calls[k].action = action

\* C30: for every action key, isLoading(action) is true while an operation
\* started through withLoading(action, op) has not settled, overlapping
\* calls for one action included, and false once every one has settled.
C30_LoadingWhileUnsettled ==
    \A action \in LoadingActions :
        isLoading(loadingStates, action) <=> Unsettled(action)

====
